---- MODULE Spec2Model ----
(***************************************************************************)
(* Verification model of the Landofile editor language service             *)
(* (src/src/schema.js, lines 1-839, and its copy in                        *)
(* src/src/lib/storage.js), of the editor initialisation that drives it    *)
(* (src/src/components/Editor.js) and of the share URL (src/src/share.js). *)
(*                                                                         *)
(* Text is modelled as the array content.split('\n'): a sequence of lines, *)
(* each line a sequence of one-character strings, so that the regular      *)
(* expressions of the source are computed character by character.          *)
(***************************************************************************)
EXTENDS Integers, Sequences, FiniteSets, TLC

(***************************************************************************)
(* Bounds of the model                                                     *)
(***************************************************************************)
\* largest number of lines of a text
MaxLines == 2
\* deepest indentation level of a line of a text
MaxDepth == 1
MaxEditorLines == 1
\* the longest path handed to a function that takes a path
MaxPath == 3

\* schema.js:548, 581, 263: level = indent.length / 2
IndentWidth == 2

(***************************************************************************)
(* Characters and the character classes of the regular expressions         *)
(***************************************************************************)
\* \s of /^(\s*)(\w+):/
WsChars == {" ", "\t"}

\* \w of /^(\s*)(\w+):/  : [A-Za-z0-9_]
WordChars ==
  {"a","b","c","d","e","f","g","h","i","j","k","l","m","n","o","p","q","r",
   "s","t","u","v","w","x","y","z","0","1","2","3","4","5","6","7","8","9","_"}

Min(a, b) == IF a < b THEN a ELSE b

\* the leading (\s*) group: number of leading whitespace characters
LeadingWs(s) ==
  CHOOSE n \in 0..Len(s) :
    /\ \A i \in 1..n : s[i] \in WsChars
    /\ (n = Len(s) \/ s[n+1] \notin WsChars)

\* the greedy (\w+) group starting at 1-based position from: its length
WordRun(s, from) ==
  CHOOSE n \in 0..(Len(s) - from + 1) :
    /\ \A i \in from..(from + n - 1) : s[i] \in WordChars
    /\ (from + n > Len(s) \/ s[from + n] \notin WordChars)

NoMatch == [ok |-> FALSE, indent |-> 0, key |-> <<>>]

\* line.match(/^(\s*)(\w+):/)
KeyMatch(s) ==
  LET ind == LeadingWs(s)
      n   == WordRun(s, ind + 1)
  IN IF n >= 1 /\ ind + n + 1 <= Len(s) /\ s[ind + n + 1] = ":"
     THEN [ok |-> TRUE, indent |-> ind, key |-> SubSeq(s, ind + 1, ind + n)]
     ELSE NoMatch

\* line.match(/^(\s*)(\w+):(\s*)$/)
StubMatch(s) ==
  LET m == KeyMatch(s)
  IN IF m.ok /\ \A i \in (m.indent + Len(m.key) + 2)..Len(s) : s[i] \in WsChars
     THEN m
     ELSE NoMatch

\* line.match(/^(\s*)-/)
DashMatch(s) ==
  LET ind == LeadingWs(s)
  IN IF ind + 1 <= Len(s) /\ s[ind + 1] = "-"
     THEN [ok |-> TRUE, indent |-> ind, key |-> <<>>]
     ELSE NoMatch

(***************************************************************************)
(* JavaScript arrays with holes: currentPath                               *)
(***************************************************************************)
\* an unassigned slot of a sparse array (undefined); no key is empty
Hole == <<>>

\* currentPath.slice(0, level)
Slice(cp, level) == SubSeq(cp, 1, Min(level, Len(cp)))

\* currentPath[level] = key    (level is a 0-based index)
SetAt(cp, level, key) ==
  IF level < Len(cp)
  THEN [cp EXCEPT ![level + 1] = key]
  ELSE cp \o [i \in 1..(level - Len(cp)) |-> Hole] \o <<key>>

\* currentPath.filter(Boolean)
FilterBoolean(cp) == SelectSeq(cp, LAMBDA x : x # <<>>)

\* targetPath.every((segment, i) => currentPath[i] === segment)
pathsMatch(currentPath, targetPath) ==
  \A i \in 1..Len(targetPath) :
    i <= Len(currentPath) /\ currentPath[i] = targetPath[i]

(***************************************************************************)
(* findPathAtPosition(content, position)                                   *)
(***************************************************************************)
Thrown == [ok |-> FALSE, val |-> <<>>]
Returned(v) == [ok |-> TRUE, val |-> v]

RECURSIVE FindPathLoop(_, _, _, _)
\* the loop "for (let i = 0; i < position.lineNumber; i++)"; lines[i] is
\* undefined past the last line and line.match then throws a TypeError
FindPathLoop(lines, i, lineNumber, currentPath) ==
  IF i >= lineNumber THEN Returned(FilterBoolean(currentPath))
  ELSE IF i + 1 > Len(lines) THEN Thrown
  ELSE LET m == KeyMatch(lines[i + 1])
           level == m.indent \div IndentWidth
       IN IF m.ok
          THEN FindPathLoop(lines, i + 1, lineNumber,
                            SetAt(Slice(currentPath, level), level, m.key))
          ELSE FindPathLoop(lines, i + 1, lineNumber, currentPath)

\* the loop stopped one line early, before the line of the position
findPathAtPositionBefore(lines, lineNumber) == FindPathLoop(lines, 0, lineNumber - 1, <<>>)

findPathAtPosition(lines, lineNumber) == FindPathLoop(lines, 0, lineNumber, <<>>)

(***************************************************************************)
(* findLocationInYaml(content, path)                                       *)
(***************************************************************************)
IsDigit(c) == c \in {"0","1","2","3","4","5","6","7","8","9"}

DigitVal(c) ==
  CASE c = "0" -> 0 [] c = "1" -> 1 [] c = "2" -> 2 [] c = "3" -> 3
    [] c = "4" -> 4 [] c = "5" -> 5 [] c = "6" -> 6 [] c = "7" -> 7
    [] c = "8" -> 8 [] OTHER -> 9

RECURSIVE DigitsVal(_)
DigitsVal(s) ==
  IF s = <<>> THEN 0
  ELSE 10 * DigitsVal(SubSeq(s, 1, Len(s) - 1)) + DigitVal(s[Len(s)])

\* parseInt(path[level]): the leading digits, -1 standing for NaN
ParseInt(path, level) ==
  IF level + 1 > Len(path) THEN -1
  ELSE LET s == path[level + 1]
           n == CHOOSE k \in 0..Len(s) :
                  /\ \A i \in 1..k : IsDigit(s[i])
                  /\ (k = Len(s) \/ ~IsDigit(s[k + 1]))
       IN IF n = 0 THEN -1 ELSE DigitsVal(SubSeq(s, 1, n))

Fallback == [line |-> 1, column |-> 1, length |-> 1]

RECURSIVE FindLocLoop(_, _, _, _, _, _)
\* currentArrayPath = -1 stands for null
FindLocLoop(lines, i, path, currentPath, arrayIndex, currentArrayPath) ==
  IF i >= Len(lines) THEN Fallback
  ELSE
    LET line == lines[i + 1]
        am   == DashMatch(line)
    IN IF am.ok
       THEN LET level == am.indent \div IndentWidth
                idx   == IF currentArrayPath # level THEN 0 ELSE arrayIndex + 1
                targetIndex == ParseInt(path, level)
            IN IF targetIndex # -1 /\ targetIndex = idx
               THEN [line |-> i + 1, column |-> am.indent + 1,
                     length |-> Len(line) - am.indent]
               ELSE FindLocLoop(lines, i + 1, path, currentPath, idx, level)
       ELSE LET m == KeyMatch(line)
                level == m.indent \div IndentWidth
                cp == SetAt(Slice(currentPath, level), level, m.key)
            IN IF m.ok
               THEN IF pathsMatch(cp, path)
                    THEN [line |-> i + 1, column |-> m.indent + 1,
                          length |-> Len(m.key)]
                    ELSE FindLocLoop(lines, i + 1, path, cp, 0, -1)
               ELSE FindLocLoop(lines, i + 1, path, currentPath, 0, -1)

findLocationInYaml(lines, path) == FindLocLoop(lines, 0, path, <<>>, 0, -1)

(***************************************************************************)
(* Texts.  A text is the sequence of its lines; a line is described by its *)
(* indentation, its key and its value and rendered to characters.          *)
(***************************************************************************)
KeyA  == <<"a">>
KeyBB == <<"b", "b">>
KeyXY == <<"x", "-", "y">>
KeyZ  == <<"z">>
\* a key that names a member of Object.prototype
KeyConstructor == <<"c", "o", "n", "s", "t", "r", "u", "c", "t", "o", "r">>

BlankLine == [kind |-> "blank", indent |-> 0, key |-> <<>>, val |-> "none"]

\* the lines of the texts: a blank line, or a key at an indentation of up
\* to MaxDepth steps, followed by nothing, by a number or by a string; the
\* key constructor stands at the top level only, with a string
LineDescs ==
  [kind : {"key"}, indent : {IndentWidth * l : l \in 0..MaxDepth},
   key : {KeyA, KeyBB, KeyXY}, val : {"none", "num", "str"}]
  \cup {[kind |-> "key", indent |-> 0, key |-> KeyConstructor, val |-> "str"]}
  \cup {BlankLine}

Texts == UNION {[1..n -> LineDescs] : n \in 1..MaxLines}

Spaces(n) == [i \in 1..n |-> " "]

ValText(val) ==
  CASE val = "num" -> <<" ", "1", "2">>
    [] val = "str" -> <<" ", "s">>
    [] OTHER -> <<>>

\* the characters of one line of the text
Render(l) ==
  IF l.kind = "blank" THEN Spaces(l.indent)
  ELSE Spaces(l.indent) \o l.key \o <<":">> \o ValText(l.val)

\* content.split('\n')
SplitLines(text) == [i \in 1..Len(text) |-> Render(text[i])]

RECURSIVE SumLen(_)
SumLen(lines) ==
  IF lines = <<>> THEN 0 ELSE Len(Head(lines)) + SumLen(Tail(lines))

\* content.length: the characters of the lines and the newlines between them
ContentLength(text) ==
  IF text = <<>> THEN 0 ELSE SumLen(SplitLines(text)) + Len(text) - 1

\* !content.trim()
TrimIsEmpty(text) ==
  \A i \in 1..Len(text) : \A j \in 1..Len(Render(text[i])) :
    Render(text[i])[j] \in WsChars

(***************************************************************************)
(* Values: what YAML.parse returns and what the validator is given.        *)
(* An object keeps its keys in insertion order (for ... in order).         *)
(***************************************************************************)
VNull   == [t |-> "null",   m |-> <<>>]
VNum    == [t |-> "number", m |-> <<>>]
VStr    == [t |-> "string", m |-> <<>>]
VObj(m) == [t |-> "object", m |-> m]

HasKey(m, k) == \E i \in 1..Len(m) : m[i].k = k
KeyIndex(m, k) == CHOOSE i \in 1..Len(m) : m[i].k = k
Get(m, k) == m[KeyIndex(m, k)].v

\* obj[k] = v
Put(m, k, v) ==
  IF HasKey(m, k) THEN [m EXCEPT ![KeyIndex(m, k)] = [k |-> k, v |-> v]]
  ELSE Append(m, [k |-> k, v |-> v])

(***************************************************************************)
(* YAML.parse(content) on block mappings: the entries of a mapping share   *)
(* one indentation, a key without value takes the more indented block that *)
(* follows as its value, and the parser rejects a block nested under a     *)
(* scalar, an indentation that matches no open mapping and a repeated key. *)
(***************************************************************************)
ScalarOf(val) == IF val = "num" THEN VNum ELSE VStr

\* the lines the parser sees: blank lines carry nothing, the line numbers
\* of the text are kept for the position of an error
KeyLineNumbers(text) ==
  SelectSeq([i \in 1..Len(text) |-> i], LAMBDA i : text[i].kind = "key")

ParseFail(lineNo) == [ok |-> FALSE, m |-> <<>>, next |-> 0, errAt |-> lineNo]

RECURSIVE ParseMap(_, _, _, _, _)
\* parses the entries at indentation ind from position i of the key lines
\* ks; m holds the entries read so far
ParseMap(text, ks, i, ind, m) ==
  IF i > Len(ks) THEN [ok |-> TRUE, m |-> m, next |-> i, errAt |-> 0]
  ELSE
    LET l == text[ks[i]]
    IN IF l.indent < ind THEN [ok |-> TRUE, m |-> m, next |-> i, errAt |-> 0]
       ELSE IF l.indent > ind THEN ParseFail(ks[i])
       ELSE IF HasKey(m, l.key) THEN ParseFail(ks[i])
       ELSE IF l.val # "none"
       THEN IF i + 1 <= Len(ks) /\ text[ks[i + 1]].indent > ind
            THEN ParseFail(ks[i + 1])
            ELSE ParseMap(text, ks, i + 1, ind,
                          Append(m, [k |-> l.key, v |-> ScalarOf(l.val)]))
       ELSE IF i + 1 <= Len(ks) /\ text[ks[i + 1]].indent > ind
       THEN LET sub == ParseMap(text, ks, i + 1, text[ks[i + 1]].indent, <<>>)
            IN IF ~sub.ok THEN sub
               ELSE ParseMap(text, ks, sub.next, ind,
                             Append(m, [k |-> l.key, v |-> VObj(sub.m)]))
       ELSE ParseMap(text, ks, i + 1, ind, Append(m, [k |-> l.key, v |-> VNull]))

\* YAML.parse: the value, or the YAMLParseError with its linePos
YAMLparse(text) ==
  LET ks == KeyLineNumbers(text)
  IN IF ks = <<>> THEN [ok |-> TRUE, val |-> VNull, errAt |-> 0]
     ELSE LET r == ParseMap(text, ks, 1, text[ks[1]].indent, <<>>)
          IN IF ~r.ok THEN [ok |-> FALSE, val |-> VNull, errAt |-> r.errAt]
             ELSE IF r.next <= Len(ks)
             THEN [ok |-> FALSE, val |-> VNull, errAt |-> ks[r.next]]
             ELSE [ok |-> TRUE, val |-> VObj(r.m), errAt |-> 0]

\* error.linePos of a YAMLParseError: [start, end], end one column further
LinePos(text, lineNo) ==
  <<[line |-> lineNo, col |-> text[lineNo].indent + 1],
    [line |-> lineNo, col |-> text[lineNo].indent + 2]>>

(***************************************************************************)
(* Stub-key normalisation (schema.js:393-421)                              *)
(***************************************************************************)
\* current[segment] = current[segment] ?? {}
NullishPut(m, k) ==
  IF HasKey(m, k) /\ Get(m, k) # VNull THEN m ELSE Put(m, k, VObj(<<>>))

RECURSIVE WalkPath(_, _, _)
\* path.forEach(...) followed by current[key] = current[key] ?? {}, on the
\* object v that "current" designates.  Creating a property on a primitive
\* throws a TypeError (module code is strict).
WalkPath(v, path, key) ==
  IF v.t # "object" THEN Thrown
  ELSE IF Len(path) = 1
  THEN Returned(VObj(NullishPut(NullishPut(v.m, path[1]), key)))
  ELSE LET m1  == NullishPut(v.m, path[1])
           sub == WalkPath(Get(m1, path[1]), Tail(path), key)
       IN IF ~sub.ok THEN Thrown
          ELSE Returned(VObj(Put(m1, path[1], sub.val)))

\* the body of lines.forEach for one line (index is 0-based)
NormalizeLine(lines, index, parsed) ==
  LET match == StubMatch(lines[index + 1])
  IN IF ~match.ok THEN Returned(parsed)
     ELSE LET p    == findPathAtPosition(lines, index + 1)
              \* parsed = parsed || {}
              root == IF parsed = VNull THEN VObj(<<>>) ELSE parsed
          IN IF ~p.ok THEN Thrown
             ELSE IF p.val = <<>>
             THEN IF root.t # "object" THEN Thrown
                  ELSE Returned(VObj(NullishPut(root.m, match.key)))
             ELSE WalkPath(root, p.val, match.key)

RECURSIVE NormalizeFrom(_, _, _)
NormalizeFrom(lines, index, parsed) ==
  IF index >= Len(lines) THEN Returned(parsed)
  ELSE LET r == NormalizeLine(lines, index, parsed)
       IN IF ~r.ok THEN Thrown ELSE NormalizeFrom(lines, index + 1, r.val)

\* lines.forEach((line, index) => { ... }) of schema.js:395-421
NormalizeStubs(lines, parsed) == NormalizeFrom(lines, 0, parsed)

(***************************************************************************)
(* error.instancePath.split('/').filter(Boolean)                           *)
(***************************************************************************)
RECURSIVE SplitSlashFrom(_, _, _)
\* split('/'): cur is the segment being read
SplitSlashFrom(s, i, cur) ==
  IF i > Len(s) THEN <<cur>>
  ELSE IF s[i] = "/" THEN <<cur>> \o SplitSlashFrom(s, i + 1, <<>>)
  ELSE SplitSlashFrom(s, i + 1, Append(cur, s[i]))

SplitSlash(s) == SplitSlashFrom(s, 1, <<>>)

InstanceSegments(ip) == FilterBoolean(SplitSlash(ip))

\* error.instancePath.split('/').pop()
LastSegment(ip) == LET segs == SplitSlash(ip) IN segs[Len(segs)]

(***************************************************************************)
(* Schemas.  A schema is the object graph that JSON.parse returns: a       *)
(* sequence of nodes, the node of index 1 being the root, each node naming *)
(* its sub-schemas by their index, so that a node has an identity (the     *)
(* visited set of flattenSchema, the merge in place of a resolved $ref).  *)
(* has is the set of the keys the node object owns, $defs and $ref being  *)
(* written defs and ref.                                                   *)
(***************************************************************************)
Empty ==
  [has |-> {}, type |-> "", description |-> "", properties |-> <<>>,
   required |-> <<>>, additionalProperties |-> TRUE, patternProperties |-> <<>>,
   oneOf |-> <<>>, defs |-> <<>>, ref |-> <<>>, enum |-> <<>>,
   examples |-> <<>>, default |-> <<>>]

\* the node object that owns the keys of the record own, with their values
Node(own) ==
  [f \in DOMAIN Empty |->
     IF f = "has" THEN DOMAIN own
     ELSE IF f \in DOMAIN own THEN own[f] ELSE Empty[f]]

\* an entry of properties, patternProperties or $defs: the key and the
\* index of its node
Prop(k, id) == [k |-> k, id |-> id]

\* the pattern "^[a-z]+$"
PatLower == <<"^", "[", "a", "-", "z", "]", "+", "$">>
\* the pattern "[": not a regular expression
PatBroken == <<"[">>
\* the pattern ".*"
PatAny == <<".", "*">>

\* { properties: { a: { type: string, description, examples: [myapp],
\*                      default: app }, bb: number, "x-y": string } }
SchemaTyped ==
  <<Node([properties |-> <<Prop(KeyA, 2), Prop(KeyBB, 3), Prop(KeyXY, 4)>>]),
    Node([type |-> "string", description |-> "doc of a",
          examples |-> <<<<"m", "y", "a", "p", "p">>>>,
          default |-> <<"a", "p", "p">>]),
    Node([type |-> "number"]),
    Node([type |-> "string"])>>

\* { type: object, additionalProperties: false, properties: { z: string } }
SchemaStrict ==
  <<Node([type |-> "object", additionalProperties |-> FALSE,
          properties |-> <<Prop(KeyZ, 2)>>]),
    Node([type |-> "string"])>>

\* { required: [z], properties: { a: { type: object, required: [z, bb] } } }
SchemaRequired ==
  <<Node([required |-> <<KeyZ>>, properties |-> <<Prop(KeyA, 2)>>]),
    Node([type |-> "object", required |-> <<KeyZ, KeyBB>>])>>

\* { properties: { a: { type: "null" }, bb: { type: object, required: [a] },
\*                 "x-y": { type: object, required: [a] } } }
SchemaNull ==
  <<Node([properties |-> <<Prop(KeyA, 2), Prop(KeyBB, 3), Prop(KeyXY, 4)>>]),
    Node([type |-> "null"]),
    Node([type |-> "object", required |-> <<KeyA>>]),
    Node([type |-> "object", required |-> <<KeyA>>])>>

\* { additionalProperties: false,
\*   properties: { "x-y": { type: object, additionalProperties: false,
\*                          properties: { a: { type: object } } },
\*                 bb: { type: object, additionalProperties: false } } }
SchemaDeep ==
  <<Node([additionalProperties |-> FALSE,
          properties |-> <<Prop(KeyXY, 2), Prop(KeyBB, 4)>>]),
    Node([type |-> "object", additionalProperties |-> FALSE,
          properties |-> <<Prop(KeyA, 3)>>]),
    Node([type |-> "object"]),
    Node([type |-> "object", additionalProperties |-> FALSE])>>

\* { properties: { a: { type: "text", description } } }: "text" is no JSON
\* Schema type, the schema does not compile
SchemaUncompilable ==
  <<Node([properties |-> <<Prop(KeyA, 2)>>]),
    Node([type |-> "text", description |-> "doc of a"])>>

\* { properties: { a: { $ref: "#/$defs/a" }, bb: { $ref: "#/$defs/z" } },
\*   patternProperties: { "^[a-z]+$": { type: object, description,
\*                                      properties: { a: { enum: [on, off] } } } },
\*   $defs: { a: { type: object, description,
\*                 oneOf: [ { description }, { type: string } ],
\*                 properties: { bb: { type: string, default: app } } } } }
SchemaRefs ==
  <<Node([properties |-> <<Prop(KeyA, 2), Prop(KeyBB, 3)>>,
          patternProperties |-> <<Prop(PatLower, 4)>>,
          defs |-> <<Prop(KeyA, 6)>>]),
    Node([ref |-> <<"#", "/", "$", "d", "e", "f", "s", "/", "a">>]),
    Node([ref |-> <<"#", "/", "$", "d", "e", "f", "s", "/", "z">>]),
    Node([type |-> "object", description |-> "doc of any",
          properties |-> <<Prop(KeyA, 5)>>]),
    Node([enum |-> <<<<"o", "n">>, <<"o", "f", "f">>>>]),
    Node([type |-> "object", description |-> "doc of def", oneOf |-> <<7, 8>>,
          properties |-> <<Prop(KeyBB, 9)>>]),
    Node([description |-> "first form"]),
    Node([type |-> "string"]),
    Node([type |-> "string", default |-> <<"a", "p", "p">>])>>

\* { properties: { a: { type: object,
\*                      patternProperties: { "[": { examples: [web] } } } } }
SchemaBrokenPattern ==
  <<Node([properties |-> <<Prop(KeyA, 2)>>]),
    Node([type |-> "object", patternProperties |-> <<Prop(PatBroken, 3)>>]),
    Node([examples |-> <<<<"w", "e", "b">>>>])>>

\* { patternProperties: { "^[a-z]+$": { type: object,
\*                                      properties: { z: { type: string } } },
\*                         ".*": { type: string } } }
SchemaPatterns ==
  <<Node([patternProperties |-> <<Prop(PatLower, 2), Prop(PatAny, 4)>>]),
    Node([type |-> "object", properties |-> <<Prop(KeyZ, 3)>>]),
    Node([type |-> "string"]),
    Node([type |-> "string"])>>

\* { properties: { a: { $ref: "#/$defs/z" },
\*                 bb: { type: string, description } },
\*   patternProperties: { "^[a-z]+$": { $ref: "#/$defs/z" },
\*                        ".*": { type: string } },
\*   $defs: { a: { type: string } } }: no definition is named z
SchemaDangling ==
  <<Node([properties |-> <<Prop(KeyA, 2), Prop(KeyBB, 3)>>,
          patternProperties |-> <<Prop(PatLower, 4), Prop(PatAny, 5)>>,
          defs |-> <<Prop(KeyA, 6)>>]),
    Node([ref |-> <<"#", "/", "$", "d", "e", "f", "s", "/", "z">>]),
    Node([type |-> "string", description |-> "doc of bb"]),
    Node([ref |-> <<"#", "/", "$", "d", "e", "f", "s", "/", "z">>]),
    Node([type |-> "string"]),
    Node([type |-> "string"])>>

\* { properties: { a: { $ref: "#/$defs/a" } },
\*   $defs: { a: { type: string, description: "doc of def", enum: [on, off],
\*                 default: on } } }
SchemaLeafRef ==
  <<Node([properties |-> <<Prop(KeyA, 2)>>, defs |-> <<Prop(KeyA, 3)>>]),
    Node([ref |-> <<"#", "/", "$", "d", "e", "f", "s", "/", "a">>]),
    Node([type |-> "string", description |-> "doc of def",
          enum |-> <<<<"o", "n">>, <<"o", "f", "f">>>>, default |-> <<"o", "n">>])>>

\* { properties: { a: { $ref: "#/$defs/a" }, bb: { $ref: "#/$defs/a" } },
\*   $defs: { a: { type: object, properties: { z: { type: object,
\*                   properties: { a: { type: string } } } } } } }
SchemaShared ==
  <<Node([properties |-> <<Prop(KeyA, 2), Prop(KeyBB, 3)>>, defs |-> <<Prop(KeyA, 4)>>]),
    Node([ref |-> <<"#", "/", "$", "d", "e", "f", "s", "/", "a">>]),
    Node([ref |-> <<"#", "/", "$", "d", "e", "f", "s", "/", "a">>]),
    Node([type |-> "object", properties |-> <<Prop(KeyZ, 5)>>]),
    Node([type |-> "object", properties |-> <<Prop(KeyA, 6)>>]),
    Node([type |-> "string"])>>

\* { properties: { z1: { type: string }, z: { type: string } },
\*   oneOf: [ { enum: [z] }, { properties: { z: { type: number } } } ] }
SchemaLabels ==
  <<Node([properties |-> <<Prop(<<"z", "1">>, 2), Prop(KeyZ, 3)>>, oneOf |-> <<4, 5>>]),
    Node([type |-> "string"]),
    Node([type |-> "string"]),
    Node([enum |-> <<KeyZ>>]),
    Node([properties |-> <<Prop(KeyZ, 6)>>]),
    Node([type |-> "number"])>>

\* { properties: { a: { $ref: "#/$defs/a" } },
\*   $defs: { a:  { type: object, properties: { z: { $ref: "#/$defs/bb" } } },
\*            bb: { type: object, properties: { a: { $ref: "#/$defs/a" } } },
\*            z:  { type: object, properties: { z: { $ref: "#/$defs/z" } } } } }
\* a refers to itself through bb, z refers to itself
SchemaCyclic ==
  <<Node([properties |-> <<Prop(KeyA, 2)>>,
          defs |-> <<Prop(KeyA, 3), Prop(KeyBB, 5), Prop(KeyZ, 7)>>]),
    Node([ref |-> <<"#", "/", "$", "d", "e", "f", "s", "/", "a">>]),
    Node([type |-> "object", properties |-> <<Prop(KeyZ, 4)>>]),
    Node([ref |-> <<"#", "/", "$", "d", "e", "f", "s", "/", "b", "b">>]),
    Node([type |-> "object", properties |-> <<Prop(KeyA, 6)>>]),
    Node([ref |-> <<"#", "/", "$", "d", "e", "f", "s", "/", "a">>]),
    Node([type |-> "object", properties |-> <<Prop(KeyZ, 8)>>]),
    Node([ref |-> <<"#", "/", "$", "d", "e", "f", "s", "/", "z">>])>>

Schemas ==
  {SchemaTyped, SchemaStrict, SchemaRequired, SchemaNull, SchemaDeep,
   SchemaUncompilable, SchemaRefs, SchemaBrokenPattern}

\* the index of the root node
Root == 1

(***************************************************************************)
(* The validator: ajv.compile(schema) and validate(parsed), with           *)
(* allErrors: true (schema.js:7-11).  Keywords: type, required,            *)
(* additionalProperties, properties, evaluated in this order at a node.    *)
(***************************************************************************)
(***************************************************************************)
(* Regular expressions of patternProperties and $ref resolution            *)
(***************************************************************************)
\* whether new RegExp(pattern) succeeds
PatternIsRegExp(pattern) == pattern # PatBroken

\* new RegExp(pattern).test(segment), for the patterns of the schemas above:
\* "^[a-z]+$" accepts the non-empty words of lower-case letters
\* and ".*" accepts every word
PatternTest(pattern, segment) ==
  \/ pattern = PatAny
  \/ /\ pattern = PatLower
     /\ segment # <<>>
     /\ \A i \in 1..Len(segment) :
          segment[i] \in (WordChars \ {"0","1","2","3","4","5","6","7","8","9","_"})

\* $ref.replace('#/', ''): removes the first occurrence of "#/"
RemoveHashSlash(ref) ==
  LET hits == {i \in 1..(Len(ref) - 1) : ref[i] = "#" /\ ref[i + 1] = "/"}
  IN IF hits = {} THEN ref
     ELSE LET i == CHOOSE x \in hits : \A y \in hits : x <= y
          IN SubSeq(ref, 1, i - 1) \o SubSeq(ref, i + 2, Len(ref))

\* the key "$defs"
NameDefs == <<"$", "d", "e", "f", "s">>

MapHasKey(map, k) == \E i \in 1..Len(map) : map[i].k = k
MapGet(map, k) == map[CHOOSE i \in 1..Len(map) : map[i].k = k].id

RECURSIVE WalkRef(_, _, _, _)
\* the loop "for (const part of refPath)": cur is the object reached, a
\* node (map = <<>>) or the map of a properties, patternProperties or $defs
\* key; 0 stands for a part that is missing.  A reference that ends on a
\* map is treated as missing.
WalkRef(S, id, map, parts) ==
  IF parts = <<>> THEN id
  ELSE LET part == Head(parts)
       IN IF id # 0
          THEN IF part = <<"p", "r", "o", "p", "e", "r", "t", "i", "e", "s">>
                  /\ "properties" \in S[id].has
               THEN WalkRef(S, 0, S[id].properties, Tail(parts))
               ELSE IF part = NameDefs /\ "defs" \in S[id].has
               THEN WalkRef(S, 0, S[id].defs, Tail(parts))
               ELSE IF part = <<"p", "a", "t", "t", "e", "r", "n", "P", "r", "o",
                                "p", "e", "r", "t", "i", "e", "s">>
                       /\ "patternProperties" \in S[id].has
               THEN WalkRef(S, 0, S[id].patternProperties, Tail(parts))
               ELSE 0
          ELSE IF MapHasKey(map, part)
               THEN WalkRef(S, MapGet(map, part), <<>>, Tail(parts))
               ELSE 0

\* resolveRef($ref, rootSchema) and the same loop inlined in flattenSchema:
\* the index of the node referred to, 0 when a part is missing
resolveRef(S, ref) == WalkRef(S, Root, <<>>, SplitSlash(RemoveHashSlash(ref)))

\* ajv.compile throws on a schema that the meta-schema rejects, on a
\* pattern that is no regular expression and on an unresolvable $ref
Compiles(S) ==
  \A id \in 1..Len(S) :
    /\ S[id].type \in {"", "string", "number", "object", "null"}
    /\ \A i \in 1..Len(S[id].patternProperties) :
         PatternIsRegExp(S[id].patternProperties[i].k)
    /\ S[id].ref # <<>> => resolveRef(S, S[id].ref) # 0

AjvError(ip, keyword, arg, prop) ==
  [instancePath |-> ip, keyword |-> keyword, arg |-> arg, prop |-> prop]

RECURSIVE FlatSeq(_)
\* concatenation of a sequence of sequences
FlatSeq(ss) == IF ss = <<>> THEN <<>> ELSE Head(ss) \o FlatSeq(Tail(ss))

SchemaHasProp(node, k) ==
  \E i \in 1..Len(node.properties) : node.properties[i].k = k

RECURSIVE AjvErrors(_, _, _, _)
\* validate.errors for the value v under the node id of S at instancePath ip
AjvErrors(S, v, id, ip) ==
  LET node == S[id]
  IN IF node.type # "" /\ v.t # node.type
     THEN <<AjvError(ip, "type", node.type, <<>>)>>
     ELSE IF v.t # "object" THEN <<>>
     ELSE
       LET missing ==
             SelectSeq(node.required, LAMBDA k : ~HasKey(v.m, k))
           requiredErrs ==
             [i \in 1..Len(missing) |-> AjvError(ip, "required", "", missing[i])]
           extra ==
             IF node.additionalProperties THEN <<>>
             ELSE SelectSeq(v.m, LAMBDA e : ~SchemaHasProp(node, e.k))
           additionalErrs ==
             [i \in 1..Len(extra) |->
                AjvError(ip, "additionalProperties", "", extra[i].k)]
           present ==
             SelectSeq(node.properties, LAMBDA p : HasKey(v.m, p.k))
           propertyErrs ==
             FlatSeq([i \in 1..Len(present) |->
                        AjvErrors(S, Get(v.m, present[i].k), present[i].id,
                                  ip \o <<"/">> \o present[i].k)])
       IN requiredErrs \o additionalErrs \o propertyErrs

(***************************************************************************)
(* validateYaml(content, schema)   (schema.js:383-504)                     *)
(***************************************************************************)
Message(form, name, keyword, arg, prop, at) ==
  [form |-> form, name |-> name, keyword |-> keyword, arg |-> arg,
   prop |-> prop, at |-> at]

Diagnostic(sl, sc, el, ec, message, source) ==
  [startLineNumber |-> sl, startColumn |-> sc, endLineNumber |-> el,
   endColumn |-> ec, message |-> message, severity |-> "Error",
   source |-> source]

\* the marker built for an additionalProperties error (schema.js:442-457)
UnexpectedDiagnostic(lines, error) ==
  LET path == Append(InstanceSegments(error.instancePath), error.prop)
      location == findLocationInYaml(lines, path)
  IN Diagnostic(location.line, location.column, location.line,
                location.column + Len(error.prop),
                Message("unexpected", error.prop, "", "", <<>>, <<>>),
                "JSON Schema")

\* the marker built for any other error (schema.js:458-468); location is
\* the location of the error's instancePath
OtherDiagnostic(location, error) ==
  Diagnostic(location.line, location.column, location.line,
             location.column + (IF location.length # 0 THEN location.length ELSE 1),
             IF error.instancePath # <<>>
             THEN Message("name message at path", LastSegment(error.instancePath),
                          error.keyword, error.arg, error.prop, error.instancePath)
             ELSE Message("message", <<>>, error.keyword, error.arg,
                          error.prop, <<>>),
             "JSON Schema")

\* `${location.line}:${location.column}` of the error's instancePath
LocationKey(lines, error) ==
  LET location == findLocationInYaml(lines, InstanceSegments(error.instancePath))
  IN <<location.line, location.column>>

MapHas(map, key) == \E i \in 1..Len(map) : map[i].key = key

\* a forEach body without the test errorsByLocation.has(locationKey): the
\* marker of a later error replaces the marker set for its location
DedupStepOverwrite(lines, map, errors, i) ==
  LET entry == [key |-> LocationKey(lines, errors[i]), err |-> i,
                diag |-> OtherDiagnostic(
                           findLocationInYaml(
                             lines, InstanceSegments(errors[i].instancePath)),
                           errors[i])]
  IN IF MapHas(map, entry.key)
     THEN [j \in 1..Len(map) |-> IF map[j].key = entry.key THEN entry ELSE map[j]]
     ELSE Append(map, entry)

\* the body of validate.errors.forEach for the error of index i; map is
\* errorsByLocation in insertion order
DedupStep(lines, map, errors, i) ==
  LET error == errors[i]
      location == findLocationInYaml(lines, InstanceSegments(error.instancePath))
      locationKey == LocationKey(lines, error)
  IN IF MapHas(map, locationKey) THEN map
     ELSE Append(map,
            [key |-> locationKey, err |-> i,
             diag |-> IF error.keyword = "additionalProperties"
                      THEN UnexpectedDiagnostic(lines, error)
                      ELSE OtherDiagnostic(location, error)])

RECURSIVE DedupFrom(_, _, _, _)
DedupFrom(lines, map, errors, i) ==
  IF i > Len(errors) THEN map
  ELSE DedupFrom(lines, DedupStep(lines, map, errors, i), errors, i + 1)

\* errorsByLocation after validate.errors.forEach (schema.js:433-470)
ErrorsByLocation(lines, errors) == DedupFrom(lines, <<>>, errors, 1)

\* a marker that ignores linePos
ParseErrorDiagnosticAtStart(text, errAt, linePosGiven) ==
  Diagnostic(1, 1, 1, ContentLength(text),
             Message("parse", <<>>, "", "", <<>>, <<>>), "YAML Parser")

\* the marker of a YAMLParseError (schema.js:479-492)
ParseErrorDiagnostic(text, errAt, linePosGiven) ==
  LET linePos == LinePos(text, errAt)
  IN Diagnostic(IF linePosGiven THEN linePos[1].line ELSE 1,
                IF linePosGiven THEN linePos[1].col ELSE 1,
                IF linePosGiven THEN linePos[2].line ELSE 1,
                IF linePosGiven THEN linePos[2].col ELSE ContentLength(text),
                Message("parse", <<>>, "", "", <<>>, <<>>), "YAML Parser")

\* the marker of any other exception (schema.js:494-502)
ExceptionDiagnostic(text) ==
  Diagnostic(1, 1, 1, ContentLength(text),
             Message("exception", <<>>, "", "", <<>>, <<>>), "YAML Parser")

\* what a call did: exc is the exception raised inside the try block,
\* threw whether an exception is on its way to the caller, ran the number of runs of the compiled validator, validated the value
\* given to it, errors its validate.errors, kept the indices of the errors
\* whose markers are returned
Outcome(exc, diags, ran, validated, errors, kept) ==
  [threw |-> exc # "none", exc |-> exc, diags |-> diags, ran |-> ran,
   validated |-> validated, errors |-> errors, kept |-> kept]

\* Array.from(errorsByLocation.values()) is returned (schema.js:472)
ValidateReturn(parsed, errors, map) ==
  Outcome("none", [i \in 1..Len(map) |-> map[i].diag], 1, parsed, errors,
          [i \in 1..Len(map) |-> map[i].err])

\* the validator has run on parsed and left errors (schema.js:429-474)
ValidateErrors(lines, parsed, errors) ==
  ValidateReturn(parsed, errors, ErrorsByLocation(lines, errors))

\* the stub keys have been walked; n is the value they left, or the
\* TypeError of an assignment; the schema is compiled and the validator
\* run (schema.js:426-427)
ValidateNormalized(lines, schema, n) ==
  IF ~n.ok THEN Outcome("other", <<>>, 0, VNull, <<>>, <<>>)
  ELSE IF ~Compiles(schema) THEN Outcome("other", <<>>, 0, VNull, <<>>, <<>>)
  ELSE ValidateErrors(lines, n.val, AjvErrors(schema, n.val, Root, <<>>))

\* YAML.parse has returned or thrown p (schema.js:391-421)
ValidateParsed(lines, schema, p) ==
  IF ~p.ok THEN Outcome("parse", <<>>, 0, VNull, <<>>, <<>>)
  ELSE ValidateNormalized(lines, schema, NormalizeStubs(lines, p.val))

\* the try block of validateYaml (schema.js:384-475)
ValidateTry(text, schema) ==
  IF TrimIsEmpty(text) THEN Outcome("none", <<>>, 0, VNull, <<>>, <<>>)
  ELSE ValidateParsed(SplitLines(text), schema, YAMLparse(text))

\* a catch block that handles the YAMLParseError only
ValidateCatchParseErrorOnly(text, linePosGiven, out) ==
  IF out.exc = "parse"
  THEN [out EXCEPT !.threw = FALSE,
                   !.diags = <<ParseErrorDiagnostic(text, YAMLparse(text).errAt,
                                                    linePosGiven)>>]
  ELSE out

\* the catch block of validateYaml (schema.js:476-503)
ValidateCatch(text, linePosGiven, out) ==
  IF out.exc = "parse"
  THEN [out EXCEPT !.threw = FALSE,
                   !.diags = <<ParseErrorDiagnostic(text, YAMLparse(text).errAt,
                                                    linePosGiven)>>]
  ELSE IF out.exc = "other"
  THEN [out EXCEPT !.threw = FALSE, !.diags = <<ExceptionDiagnostic(text)>>]
  ELSE out

validateYaml(text, schema, linePosGiven) ==
  ValidateCatch(text, linePosGiven, ValidateTry(text, schema))

(***************************************************************************)
(* flattenSchema(schema, prefix, result, visited, rootSchema)              *)
(* (schema.js:103-236).  The state threaded through the recursion is the   *)
(* schema graph S (nodes are merged in place), the index result (an object *)
(* keeps its keys in insertion order) and the visited set.                 *)
(***************************************************************************)
\* value.default: <<>> when undefined
DefaultOf(node) == IF "default" \in node.has THEN <<node.default>> ELSE <<>>

\* value.additionalProperties
AdditionalOf(node) ==
  IF "additionalProperties" \in node.has
  THEN (IF node.additionalProperties THEN "true" ELSE "false")
  ELSE "undefined"

\* the entry stored for a property or for a leaf (schema.js:198-206, 214-222)
PropertyEntry(node) ==
  [description |-> node.description,
   type |-> node.type, enum |-> node.enum, examples |-> node.examples,
   default |-> DefaultOf(node), oneOf |-> node.oneOf,
   additionalProperties |-> AdditionalOf(node), pattern |-> <<>>]

\* the entry stored for a pattern whose value has no $ref (schema.js:170-176)
PatternEntry(pattern, value) ==
  [description |-> value.description,
   type |-> value.type, enum |-> <<>>, examples |-> <<>>, default |-> <<>>,
   oneOf |-> value.oneOf, additionalProperties |-> AdditionalOf(value),
   pattern |-> pattern]

\* the entry stored for a pattern whose value has a $ref (schema.js:161-167)
PatternRefEntry(pattern, value, refSchema) ==
  [description |-> refSchema.description,
   type |-> IF refSchema.type # "" THEN refSchema.type ELSE value.type,
   enum |-> <<>>, examples |-> <<>>, default |-> <<>>,
   oneOf |-> IF "oneOf" \in refSchema.has THEN refSchema.oneOf ELSE value.oneOf,
   additionalProperties |->
     IF AdditionalOf(refSchema) = "true" THEN "true" ELSE AdditionalOf(value),
   pattern |-> pattern]

\* result[path] = entry
IndexPut(result, path, entry) ==
  IF \E i \in 1..Len(result) : result[i].path = path
  THEN [result EXCEPT ![CHOOSE i \in 1..Len(result) : result[i].path = path] =
          [path |-> path, entry |-> entry]]
  ELSE Append(result, [path |-> path, entry |-> entry])

\* the names that every plain object inherits from Object.prototype, as
\* far as the texts can name them: obj[name] is a function for them
ObjectPrototypeKeys == {KeyConstructor}

\* whether the index has the path as an own key
IndexHas(result, path) == \E i \in 1..Len(result) : result[i].path = path

\* result[path], known to be truthy: the entry stored, or the inherited
\* function, that has none of the fields of an entry
IndexGet(result, path) ==
  IF IndexHas(result, path)
  THEN result[CHOOSE i \in 1..Len(result) : result[i].path = path].entry
  ELSE PropertyEntry(Empty)

\* { ...refSchema, ...schema, description: schema.description ||
\*   refSchema.description } assigned to schema (schema.js:130-136)
Merged(schema, refSchema) ==
  LET pick(f, own, other) == IF f \in schema.has THEN own ELSE other
  IN [has |-> schema.has \cup refSchema.has \cup {"description"},
      type |-> pick("type", schema.type, refSchema.type),
      description |-> IF schema.description # "" THEN schema.description
                      ELSE refSchema.description,
      properties |-> pick("properties", schema.properties, refSchema.properties),
      required |-> pick("required", schema.required, refSchema.required),
      additionalProperties |->
        pick("additionalProperties", schema.additionalProperties,
             refSchema.additionalProperties),
      patternProperties |->
        pick("patternProperties", schema.patternProperties,
             refSchema.patternProperties),
      oneOf |-> pick("oneOf", schema.oneOf, refSchema.oneOf),
      defs |-> pick("defs", schema.defs, refSchema.defs),
      ref |-> pick("ref", schema.ref, refSchema.ref),
      enum |-> pick("enum", schema.enum, refSchema.enum),
      examples |-> pick("examples", schema.examples, refSchema.examples),
      default |-> pick("default", schema.default, refSchema.default)]

\* prefix ? `${prefix}/${key}` : key
JoinPath(prefix, key) == IF prefix # <<>> THEN prefix \o <<"/">> \o key ELSE key

RECURSIVE NumberChars(_)
\* String(n)
NumberChars(n) ==
  LET digits == <<"0", "1", "2", "3", "4", "5", "6", "7", "8", "9">>
  IN IF n < 10 THEN <<digits[n + 1]>>
     ELSE NumberChars(n \div 10) \o <<digits[(n % 10) + 1]>>

\* lib tells the copy of flattenSchema in src/lib (storage.js:158-296), whose
\* loop over the pattern properties is a for...of loop, so that the
\* "return" on an unresolvable $ref (storage.js:215-218) leaves
\* flattenSchema itself, with undefined; returned tells that this happened
\* in the call that has just ended
\* processed lists, in order, the nodes that passed the visited check of
\* schema.js:104-107, one entry for each time a node did
FlatState(S, result, visited, lib, returned, processed) ==
  [S |-> S, result |-> result, visited |-> visited, lib |-> lib,
   returned |-> returned, processed |-> processed]

\* a recursive call has ended: its return value is not used
Resume(st) == [st EXCEPT !.returned = FALSE]

RECURSIVE FlattenNode(_, _, _)
RECURSIVE FlattenPatterns(_, _, _, _)
RECURSIVE FlattenOneOf(_, _, _, _)
RECURSIVE FlattenProperties(_, _, _, _)
RECURSIVE FlattenDefs(_, _, _)

\* Object.entries(schema.patternProperties).forEach, from entry i on
FlattenPatterns(st, prefix, entries, i) ==
  IF i > Len(entries) THEN st
  ELSE
    LET pattern == entries[i].k
        value == st.S[entries[i].id]
        wildcardPath == JoinPath(prefix, <<"*">>)
        target == resolveRef(st.S, value.ref)
    IN IF value.ref # <<>> /\ target = 0
       THEN (IF st.lib THEN [st EXCEPT !.returned = TRUE]
             ELSE FlattenPatterns(st, prefix, entries, i + 1))
       ELSE
         LET entry == IF value.ref # <<>>
                      THEN PatternRefEntry(pattern, value, st.S[target])
                      ELSE PatternEntry(pattern, value)
             st1 == [st EXCEPT !.result = IndexPut(@, wildcardPath, entry)]
         IN FlattenPatterns(Resume(FlattenNode(st1, entries[i].id, wildcardPath)),
                            prefix, entries, i + 1)

\* schema.oneOf.forEach((subSchema, index) => ...), from position i on
FlattenOneOf(st, prefix, ids, i) ==
  IF i > Len(ids) THEN st
  ELSE FlattenOneOf(
         Resume(FlattenNode(st, ids[i], prefix \o <<"#">> \o NumberChars(i - 1))),
         prefix, ids, i + 1)

\* Object.entries(schema.properties).forEach, from entry i on
FlattenProperties(st, prefix, entries, i) ==
  IF i > Len(entries) THEN st
  ELSE
    LET path == JoinPath(prefix, entries[i].k)
        st1 == [st EXCEPT !.result =
                  IndexPut(@, path, PropertyEntry(st.S[entries[i].id]))]
    IN FlattenProperties(Resume(FlattenNode(st1, entries[i].id, path)),
                         prefix, entries, i + 1)

RECURSIVE FlattenDefsFreshVisited(_, _, _)
\* the definitions flattened with a visited set of their own
FlattenDefsFreshVisited(st, entries, i) ==
  IF i > Len(entries) THEN st
  ELSE FlattenDefsFreshVisited(
         Resume(FlattenNode([st EXCEPT !.visited = {}], entries[i].id,
                            NameDefs \o <<"/">> \o entries[i].k)),
         entries, i + 1)

\* Object.entries(schema.$defs).forEach, from entry i on
FlattenDefs(st, entries, i) ==
  IF i > Len(entries) THEN st
  ELSE FlattenDefs(
         Resume(FlattenNode(st, entries[i].id, NameDefs \o <<"/">> \o entries[i].k)),
         entries, i + 1)

\* one call of flattenSchema on the node id
FlattenNode(st, id, prefix) ==
  IF id \in st.visited THEN st
  ELSE
    LET visited == st.visited \cup {id}
        target == resolveRef(st.S, st.S[id].ref)
    IN IF st.S[id].ref # <<>> /\ target = 0
       THEN [st EXCEPT !.visited = visited, !.processed = Append(@, id)]
       ELSE
         LET S1 == IF st.S[id].ref # <<>>
                   THEN [st.S EXCEPT ![id] = Merged(st.S[id], st.S[target])]
                   ELSE st.S
             schema == S1[id]
             st1 == FlatState(S1, st.result, visited, st.lib, FALSE, Append(st.processed, id))
             st2 == IF "patternProperties" \in schema.has
                    THEN FlattenPatterns(st1, prefix, schema.patternProperties, 1)
                    ELSE st1
             st3 == IF "oneOf" \in schema.has
                    THEN FlattenOneOf(st2, prefix, schema.oneOf, 1)
                    ELSE st2
             st4 == IF "properties" \in schema.has
                    THEN FlattenProperties(st3, prefix, schema.properties, 1)
                    ELSE IF prefix # <<>> /\ "patternProperties" \notin schema.has
                    THEN [st3 EXCEPT !.result =
                            IndexPut(@, prefix, PropertyEntry(schema))]
                    ELSE st3
         IN IF st2.returned THEN st2
            ELSE IF "defs" \in schema.has
            THEN FlattenDefs(st4, schema.defs, 1)
            ELSE st4

\* flattenSchema(schema) of schema.js (lib = FALSE) or of src/lib: the
\* index built, whether undefined is returned instead of it, and the schema
\* graph as the call leaves it
flattenSchemaOf(S, lib) ==
  FlattenNode(FlatState(S, <<>>, {}, lib, FALSE, <<>>), Root, <<>>)

\* flattenSchema(schema) of schema.js
flattenSchema(S) == flattenSchemaOf(S, FALSE)

(***************************************************************************)
(* generatePossiblePaths(path)   (schema.js:352-381)                       *)
(***************************************************************************)
RECURSIVE Join(_)
\* path.join('/')
Join(path) ==
  IF path = <<>> THEN <<>>
  ELSE IF Len(path) = 1 THEN path[1]
  ELSE path[1] \o <<"/">> \o Join(Tail(path))

\* [...path.slice(0, i), '*', ...path.slice(i + 1)].join('/')  (i 0-based)
WildcardAt(path, i) ==
  Join(SubSeq(path, 1, i) \o <<<<"*">>>> \o SubSeq(path, i + 2, Len(path)))

\* the wildcard variations tried from the first segment on
generatePossiblePathsAscending(path) ==
  LET exact == IF Len(path) > 0 THEN <<Join(path)>> ELSE <<>>
      n == Len(path)
      wild == IF n > 1
              THEN [j \in 1..(n - 1) |-> WildcardAt(path, j)]
              ELSE <<>>
  IN FilterBoolean(exact \o wild \o <<<<"*">>>>)

generatePossiblePaths(path) ==
  LET exact == IF Len(path) > 0 THEN <<Join(path)>> ELSE <<>>
      n == Len(path)
      wild == IF n > 1
              THEN [j \in 1..(n - 1) |-> WildcardAt(path, n - j)]
              ELSE <<>>
  IN FilterBoolean(exact \o wild \o <<<<"*">>>>)


(***************************************************************************)
(* getHoverInfo(content, position)   (schema.js:254-349)                   *)
(***************************************************************************)
\* the module variable schemaDefinitions: null, or the index
NullDefinitions == [isNull |-> TRUE, index |-> <<>>]
Definitions(index) == [isNull |-> FALSE, index |-> index]

Item(tag, s, k, list, n) == [tag |-> tag, s |-> s, k |-> k, list |-> list, n |-> n]

\* YAML.stringify(value) of a plain word: the word and a line feed
YAMLstringify(value) == value \o <<"\n">>

\* JSON.stringify(value) of a string without special characters
JSONstringify(value) == <<"\"">> \o value \o <<"\"">>

\* formatExample(key, example) of a primitive: `${key}: ${YAML.stringify(example)}`
formatExample(key, example) ==
  Item("yaml", "", key \o <<":", " ">> \o YAMLstringify(example), <<>>, 0)

\* the lines "n. description" of the alternatives that have a description
FormatLines(S, ids) ==
  LET described == SelectSeq([i \in 1..Len(ids) |-> i],
                             LAMBDA i : S[ids[i]].description # "")
  IN [j \in 1..Len(described) |->
        Item("format", S[ids[described[j]]].description, <<>>, <<>>, described[j])]

\* the contents array built from an index entry (schema.js:284-332)
HoverContents(S, info, key) ==
  (IF info.description # ""
     THEN <<Item("description", info.description, <<>>, <<>>, 0)>> ELSE <<>>)
  \o (IF info.type # "" THEN <<Item("Type", info.type, <<>>, <<>>, 0)>> ELSE <<>>)
  \o (IF info.pattern # <<>>
        THEN <<Item("Pattern", "", info.pattern, <<>>, 0)>> ELSE <<>>)
  \o (IF info.enum # <<>>
        THEN <<Item("Allowed values", "", <<>>, info.enum, 0)>> ELSE <<>>)
  \o (IF info.default # <<>>
        THEN <<Item("Default:", "", <<>>, <<>>, 0),
               formatExample(key, info.default[1])>>
        ELSE <<>>)
  \o (IF info.examples # <<>>
        THEN <<Item("Examples:", "", <<>>, <<>>, 0)>>
             \o [i \in 1..Len(info.examples) |-> formatExample(key, info.examples[i])]
        ELSE <<>>)
  \o (IF info.oneOf # <<>>
        THEN <<Item("Possible Formats:", "", <<>>, <<>>, 0)>> \o FormatLines(S, info.oneOf)
        ELSE <<>>)

NoRange ==
  [startLineNumber |-> 0, startColumn |-> 0, endLineNumber |-> 0, endColumn |-> 0]

\* what getHoverInfo returns: null, or { contents, range }; exc tells that
\* an exception was raised inside its try block, threw that it escaped
HoverNull(exc) ==
  [threw |-> exc, exc |-> exc, isNull |-> TRUE, contents |-> <<>>,
   range |-> NoRange]

\* the candidates of possiblePaths for which
\* "schemaDefinitions && schemaDefinitions[schemaPath]" is truthy, in order
IndexHits(definitions, possiblePaths) ==
  SelectSeq(possiblePaths,
            LAMBDA q : /\ ~definitions.isNull
                       /\ (IndexHas(definitions.index, q) \/ q \in ObjectPrototypeKeys))

\* the try block of getHoverInfo
HoverTry(lines, lineNumber, definitions, S) ==
  IF lineNumber < 1 \/ lineNumber > Len(lines) THEN HoverNull(TRUE)
  ELSE
    LET match == KeyMatch(lines[lineNumber])
        path == findPathAtPosition(lines, lineNumber)
        hits == IndexHits(definitions, generatePossiblePaths(path.val))
    IN IF ~match.ok THEN HoverNull(FALSE)
       ELSE IF ~path.ok THEN HoverNull(TRUE)
       ELSE IF hits = <<>> THEN HoverNull(FALSE)
       ELSE [threw |-> FALSE, exc |-> FALSE, isNull |-> FALSE,
             contents |-> HoverContents(S, IndexGet(definitions.index, hits[1]),
                                        match.key),
             range |-> [startLineNumber |-> lineNumber,
                        startColumn |-> match.indent + 1,
                        endLineNumber |-> lineNumber,
                        endColumn |-> match.indent + Len(match.key) + 1]]

\* the catch block of getHoverInfo logs the error; null is returned
HoverCatch(out) == [out EXCEPT !.threw = FALSE]

getHoverInfo(lines, lineNumber, definitions, S) ==
  HoverCatch(HoverTry(lines, lineNumber, definitions, S))

(***************************************************************************)
(* Completion   (schema.js:592-836)                                        *)
(***************************************************************************)
\* monaco.languages.CompletionItemKind.Field and .Value
KindField == 3
KindValue == 13

\* formatPropertyDocs(prop): the parts joined by blank lines
formatPropertyDocs(prop) ==
  (IF prop.description # ""
     THEN <<Item("description", prop.description, <<>>, <<>>, 0)>> ELSE <<>>)
  \o (IF prop.type # "" THEN <<Item("**Type:**", prop.type, <<>>, <<>>, 0)>> ELSE <<>>)
  \o (IF prop.enum # <<>>
        THEN <<Item("**Allowed values:**", "", <<>>, prop.enum, 0)>> ELSE <<>>)
  \o (IF "default" \in prop.has
        THEN <<Item("**Default:**", "", JSONstringify(prop.default), <<>>, 0)>>
        ELSE <<>>)
  \o (IF prop.examples # <<>>
        THEN <<Item("**Examples:**", "", <<>>,
                    [i \in 1..Len(prop.examples) |-> JSONstringify(prop.examples[i])],
                    0)>>
        ELSE <<>>)

\* the placeholder pre-filled with the default before the examples
createInsertTextDefaultFirst(key, prop) ==
  IF prop.type = "object"
  THEN key \o <<":", "\n", " ", " ", "$", "{", "1", "}">>
  ELSE key \o <<":", " ">>
       \o (IF "default" \in prop.has
             THEN <<"$", "{", "1", ":">> \o prop.default \o <<"}">>
           ELSE IF prop.examples # <<>>
             THEN <<"$", "{", "1", ":">> \o prop.examples[1] \o <<"}">>
           ELSE IF prop.enum # <<>>
             THEN <<"$", "{", "1", ":">> \o prop.enum[1] \o <<"}">>
           ELSE <<"$", "{", "1", "}">>)
       \o <<"\n">>

\* createInsertText(key, prop)
createInsertText(key, prop) ==
  IF prop.type = "object"
  THEN key \o <<":", "\n", " ", " ", "$", "{", "1", "}">>
  ELSE key \o <<":", " ">>
       \o (IF prop.examples # <<>>
             THEN <<"$", "{", "1", ":">> \o prop.examples[1] \o <<"}">>
           ELSE IF prop.enum # <<>>
             THEN <<"$", "{", "1", ":">> \o prop.enum[1] \o <<"}">>
           ELSE IF "default" \in prop.has
             THEN <<"$", "{", "1", ":">> \o prop.default \o <<"}">>
           ELSE <<"$", "{", "1", "}">>)
       \o <<"\n">>

Suggestion(label, kind, documentation, docs, insertText, range, sortText) ==
  [label |-> label, kind |-> kind, documentation |-> documentation,
   docs |-> docs, insertText |-> insertText, range |-> range,
   sortText |-> sortText]

\* a suggestion for a key of properties or for an example of a pattern
FieldSuggestion(label, prop, range, bucket) ==
  Suggestion(label, KindField, "", formatPropertyDocs(prop),
             createInsertText(label, prop), range, <<bucket>> \o label)

ValueSuggestion(value, documentation, range, bucket) ==
  Suggestion(value, KindValue, documentation, <<>>, value, range,
             <<bucket>> \o value)

\* getRootCompletions(schema, range)
getRootCompletions(S, range) ==
  IF "properties" \notin S[Root].has THEN <<>>
  ELSE [i \in 1..Len(S[Root].properties) |->
          LET key == S[Root].properties[i].k
              prop == S[S[Root].properties[i].id]
          IN Suggestion(key, KindField, "", formatPropertyDocs(prop),
                        createInsertText(key, prop), range, key)]

\* the suggestions pushed for one of the schemas (schema.js:656-728)
SuggestionsOf(S, id, range) ==
  LET cur == S[id]
      patternSuggestions ==
        FlatSeq([i \in 1..Len(cur.patternProperties) |->
                   LET prop == S[cur.patternProperties[i].id]
                   IN [j \in 1..Len(prop.examples) |->
                         FieldSuggestion(prop.examples[j], prop, range, "4")]])
  IN [i \in 1..Len(cur.enum) |-> ValueSuggestion(cur.enum[i], "Allowed value", range, "1")]
     \o [i \in 1..Len(cur.examples) |->
           ValueSuggestion(cur.examples[i], "Example value", range, "2")]
     \o [i \in 1..Len(cur.properties) |->
           FieldSuggestion(cur.properties[i].k, S[cur.properties[i].id], range, "3")]
     \o patternSuggestions
     \o (IF "default" \in cur.has
           THEN <<ValueSuggestion(cur.default, "Default value", range, "0")>>
           ELSE <<>>)

\* suggestion.label + suggestion.kind
SeenKey(suggestion) == suggestion.label \o NumberChars(suggestion.kind)

\* suggestions.filter(...) with the seen set: the first of each key is kept
RemoveDuplicates(suggestions) ==
  LET keep == SelectSeq([i \in 1..Len(suggestions) |-> i],
                LAMBDA i : \A j \in 1..(i - 1) :
                             SeenKey(suggestions[j]) # SeenKey(suggestions[i]))
  IN [i \in 1..Len(keep) |-> suggestions[keep[i]]]

\* getCompletionsForSchema(schema, range), on the node id
getCompletionsForSchema(S, id, range) ==
  LET schemas == <<id>> \o S[id].oneOf
  IN RemoveDuplicates(
       FlatSeq([i \in 1..Len(schemas) |-> SuggestionsOf(S, schemas[i], range)]))

\* the patterns tried by find() up to the first that matches the segment
PatternsTried(patterns, segment) ==
  LET hits == {i \in 1..Len(patterns) : PatternTest(patterns[i].k, segment)}
  IN IF hits = {} THEN patterns
     ELSE SubSeq(patterns, 1, CHOOSE i \in hits : \A j \in hits : i <= j)

\* stands for a member of Object.prototype where the index of a node is
\* expected
PrototypeMember == 0 - 1

RECURSIVE SchemaAtPathFrom(_, _, _)
\* the loop of getSchemaAtPath(schema, path) from the node current on; the
\* value is the index of the node reached, 0 for null, PrototypeMember for
\* a function inherited by the properties object, which has no keyword of
\* a schema; ok is FALSE when new RegExp(pattern) throws
SchemaAtPathFrom(S, current, path) ==
  IF path = <<>> THEN Returned(current)
  ELSE
    LET segment == Head(path)
        node == S[current]
        tried == PatternsTried(node.patternProperties, segment)
        target == resolveRef(S, node.ref)
    IN IF MapHasKey(node.properties, segment)
       THEN SchemaAtPathFrom(S, MapGet(node.properties, segment), Tail(path))
       ELSE IF "properties" \in node.has /\ segment \in ObjectPrototypeKeys
       THEN (IF Tail(path) = <<>> THEN Returned(PrototypeMember) ELSE Returned(0))
       ELSE IF \E i \in 1..Len(tried) : ~PatternIsRegExp(tried[i].k)
       THEN Thrown
       ELSE IF tried # <<>> /\ PatternTest(tried[Len(tried)].k, segment)
       THEN SchemaAtPathFrom(S, tried[Len(tried)].id, Tail(path))
       ELSE IF node.ref # <<>> /\ target # 0
       THEN SchemaAtPathFrom(S, target, Tail(path))
       ELSE Returned(0)

getSchemaAtPath(S, path) == SchemaAtPathFrom(S, Root, path)

\* the number of word characters that end at the end of the line
RECURSIVE TrailingWord(_)
TrailingWord(line) ==
  IF line = <<>> \/ line[Len(line)] \notin WordChars THEN 0
  ELSE 1 + TrailingWord(SubSeq(line, 1, Len(line) - 1))

\* the range of model.getWordUntilPosition(position), the cursor standing
\* at the end of its line
WordRange(lines, lineNumber) ==
  [startLineNumber |-> lineNumber,
   startColumn |-> Len(lines[lineNumber]) + 1 - TrailingWord(lines[lineNumber]),
   endLineNumber |-> lineNumber,
   endColumn |-> Len(lines[lineNumber]) + 1]

\* what getCompletionItems returns: { suggestions }
Completion(exc, suggestions) ==
  [threw |-> exc, exc |-> exc, suggestions |-> suggestions]

\* the try block of getCompletionItems (schema.js:593-620)
CompletionTry(lines, lineNumber, S) ==
  LET path == findPathAtPosition(lines, lineNumber)
  IN IF ~path.ok \/ lineNumber < 1 THEN Completion(TRUE, <<>>)
     ELSE
       LET lineContent == lines[lineNumber]
           range == WordRange(lines, lineNumber)
           currentSchema == getSchemaAtPath(S, path.val)
       IN IF ~(Len(lineContent) >= 1 /\ lineContent[1] = " ")
          THEN Completion(FALSE, getRootCompletions(S, range))
          ELSE IF ~currentSchema.ok THEN Completion(TRUE, <<>>)
          ELSE IF currentSchema.val \in {0, PrototypeMember}
          THEN Completion(FALSE, <<>>)
          ELSE Completion(FALSE,
                          getCompletionsForSchema(S, currentSchema.val, range))

\* the catch block of getCompletionItems returns { suggestions: [] }
CompletionCatch(out) ==
  [out EXCEPT !.threw = FALSE, !.suggestions = IF out.exc THEN <<>> ELSE @]

getCompletionItems(lines, lineNumber, S) ==
  CompletionCatch(CompletionTry(lines, lineNumber, S))

(***************************************************************************)
(* loadSchema and the continuation of setupEditorFeatures                  *)
(***************************************************************************)
\* null, for a schema object
NoSchema == <<>>

\* what loadSchema leaves behind and returns (schema.js:33-100): fetched is
\* NoSchema when the fetch failed, the response was not ok or the document
\* is no object; the index is stored before the validator is compiled
LoadState(schema, definitions, compiled, returned) ==
  [schema |-> schema, schemaDefinitions |-> definitions,
   compiledSchema |-> compiled, returned |-> returned]

\* schemaDefinitions = flattenSchema(schema), then ajv.compile
\* (schema.js:76-92); flat is what flattenSchema left
LoadFlattened(flat, compiled) ==
  IF Compiles(flat.S)
  THEN LoadState(flat.S, Definitions(flat.result), flat.S, flat.S)
  ELSE LoadState(flat.S, Definitions(flat.result), compiled, NoSchema)

\* loadSchema without the early return on a compiled schema
loadSchemaAfresh(fetched, schema, definitions, compiled) ==
  IF fetched = NoSchema
  THEN LoadState(schema, definitions, compiled, NoSchema)
  ELSE LoadFlattened(flattenSchema(fetched), compiled)

loadSchema(fetched, schema, definitions, compiled) ==
  IF compiled # NoSchema THEN LoadState(schema, definitions, compiled, compiled)
  ELSE IF fetched = NoSchema
  THEN LoadState(schema, definitions, compiled, NoSchema)
  ELSE LoadFlattened(flattenSchema(fetched), compiled)

\* the marker of handleSchemaLoadFailure (Editor.js:153-163)
WarningMarker ==
  [startLineNumber |-> 1, startColumn |-> 1, endLineNumber |-> 1,
   endColumn |-> 1,
   message |-> Message("unavailable", <<>>, "", "", <<>>, <<>>),
   severity |-> "Warning", source |-> ""]

\* what the editor has registered and shown; validated tells whether
\* validateYaml has been called
EditorState(loadResult, hoverProvider, completionProvider, listener, markers, validated) ==
  [loadResult |-> loadResult, hoverProvider |-> hoverProvider,
   completionProvider |-> completionProvider, listener |-> listener,
   markers |-> markers, validated |-> validated]

NoEditor == EditorState("none", FALSE, FALSE, FALSE, <<>>, FALSE)

\* updateDiagnostics (Editor.js:166-176): the markers become the result of
\* validateYaml
updateDiagnostics(ed, out) ==
  [ed EXCEPT !.markers = IF out.threw THEN @ ELSE out.diags,
             !.validated = TRUE]

\* a continuation that sets up the validation whatever loadSchema returned
AfterLoadUnchecked(ed, schemaContent, out) ==
  [ed EXCEPT !.loadResult = IF schemaContent = <<>> THEN "null" ELSE "schema",
             !.markers = out.diags, !.validated = TRUE, !.listener = TRUE,
             !.completionProvider = TRUE]

\* setupEditorFeatures after "await loadSchema()" (Editor.js:140-150); out
\* is the result of validateYaml on the text of the buffer
AfterLoad(ed, schemaContent, out) ==
  IF schemaContent = NoSchema
  THEN [ed EXCEPT !.loadResult = "null", !.markers = <<WarningMarker>>]
  ELSE [updateDiagnostics(ed, out) EXCEPT !.loadResult = "schema",
                                           !.listener = TRUE,
                                           !.completionProvider = TRUE]

(***************************************************************************)
(* State                                                                   *)
(***************************************************************************)
VARIABLES
  content,            \* the text of the editor buffer, line by line
  schema,             \* the schema object: handed to the entry points, or fetched
  schemaDefinitions,  \* the module variable of schema.js
  compiledSchema,     \* the module variable of schema.js
  linePosGiven,       \* whether a YAMLParseError carries linePos; the parser
                      \* of the editor sets it
  position,           \* the line number of the latest hover or completion request
  pc,                 \* what has been called, or the phase of the editor
  outcome,            \* what the latest validateYaml did
  hover,              \* what the latest getHoverInfo returned
  completion,         \* what the latest getCompletionItems returned
  editor,             \* what the editor has registered and shown
  call                \* the latest call of an internal function: its name,
                      \* its arguments and what it returned

vars ==
  <<content, schema, schemaDefinitions, compiledSchema, linePosGiven, position,
    pc, outcome, hover, completion, editor, call>>

\* a call of the function fn
Call(fn, args, result) == [fn |-> fn, args |-> args, result |-> result]
NoCall == Call("none", <<>>, <<>>)

NoOutcome == Outcome("none", <<>>, 0, VNull, <<>>, <<>>)


(***************************************************************************)
(* The entry points called on any text, schema and position: the schema is *)
(* as written, or it has been through loadSchema                           *)
(***************************************************************************)
Init ==
  /\ content \in Texts
  /\ \E raw \in Schemas, loaded \in BOOLEAN :
       \E l \in {loadSchema(raw, NoSchema, NullDefinitions, NoSchema)} :
          /\ schema = IF loaded THEN l.schema ELSE raw
          /\ schemaDefinitions = IF loaded THEN l.schemaDefinitions
                                 ELSE NullDefinitions
          /\ compiledSchema = IF loaded THEN l.compiledSchema ELSE NoSchema
  /\ linePosGiven = TRUE
  /\ position = 1
  /\ pc = "start"
  /\ outcome = NoOutcome
  /\ hover = HoverNull(FALSE)
  /\ completion = Completion(FALSE, <<>>)
  /\ editor = NoEditor
  /\ call = NoCall

\* the caller invokes validateYaml(content, schema)
Validate ==
  /\ pc = "start"
  /\ \E given \in BOOLEAN :
       /\ linePosGiven' = given
       /\ outcome' = validateYaml(content, schema, given)
  /\ pc' = "validated"
  /\ UNCHANGED call
  /\ UNCHANGED <<content, schema, schemaDefinitions, compiledSchema, position,
                 hover, completion, editor>>

\* the caller invokes getHoverInfo(content, position)
Hover ==
  /\ pc = "start"
  /\ \E lineNumber \in 1..(MaxLines + 1) :
       /\ position' = lineNumber
       /\ hover' = getHoverInfo(SplitLines(content), lineNumber,
                                schemaDefinitions, schema)
  /\ pc' = "hovered"
  /\ UNCHANGED call
  /\ UNCHANGED <<content, schema, schemaDefinitions, compiledSchema,
                 linePosGiven, outcome, completion, editor>>

\* the caller invokes getCompletionItems(model, position, schema)
Complete ==
  /\ pc = "start"
  /\ \E lineNumber \in 1..(MaxLines + 1) :
       /\ position' = lineNumber
       /\ completion' = getCompletionItems(SplitLines(content), lineNumber, schema)
  /\ pc' = "completed"
  /\ UNCHANGED call
  /\ UNCHANGED <<content, schema, schemaDefinitions, compiledSchema,
                 linePosGiven, outcome, hover, editor>>

Next == Validate \/ Hover \/ Complete

Spec == Init /\ [][Next]_vars

(***************************************************************************)
(* The editor: init, then content changes and requests to the providers    *)
(* (Editor.js:38-186)                                                      *)
(***************************************************************************)
\* the texts of the buffer of the editor
EditorTexts == UNION {[1..n -> LineDescs] : n \in 1..MaxEditorLines}

\* the texts that one edit makes of a text: a line is replaced or
\* appended, or the last line is removed
Edits(text) ==
  {[i \in 1..(IF at > Len(text) THEN at ELSE Len(text)) |->
      IF i = at THEN line ELSE text[i]] :
     at \in 1..Min(Len(text) + 1, MaxEditorLines), line \in LineDescs}
  \cup {SubSeq(text, 1, Len(text) - 1) : n \in {Len(text)} \ {1}}

InitEditor ==
  /\ content \in EditorTexts
  /\ schema = NoSchema
  /\ schemaDefinitions = NullDefinitions
  /\ compiledSchema = NoSchema
  /\ linePosGiven = TRUE
  /\ position = 1
  /\ pc = "created"
  /\ outcome = NoOutcome
  /\ hover = HoverNull(FALSE)
  /\ completion = Completion(FALSE, <<>>)
  /\ editor = NoEditor
  /\ call = NoCall

\* setupEditorFeatures up to "await loadSchema()": the hover provider is
\* registered and the load is started
SetupEditorFeatures ==
  /\ pc = "created"
  /\ pc' = "loading"
  /\ editor' = [editor EXCEPT !.hoverProvider = TRUE, !.loadResult = "pending"]
  /\ UNCHANGED call
  /\ UNCHANGED <<content, schema, schemaDefinitions, compiledSchema,
                 linePosGiven, position, outcome, hover, completion>>

\* loadSchema settles and setupEditorFeatures goes on
LoadSettles ==
  /\ pc = "loading"
  /\ \E fetched \in Schemas \cup {NoSchema} :
       \E l \in {loadSchema(fetched, schema, schemaDefinitions, compiledSchema)} :
         \E out \in {IF l.returned = NoSchema THEN outcome
                     ELSE validateYaml(content, l.returned, linePosGiven)} :
          /\ schema' = l.schema
          /\ schemaDefinitions' = l.schemaDefinitions
          /\ compiledSchema' = l.compiledSchema
          /\ editor' = AfterLoad(editor, l.returned, out)
          /\ outcome' = out
  /\ pc' = "ready"
  /\ UNCHANGED call
  /\ UNCHANGED <<content, linePosGiven, position, hover, completion>>

\* the text of the buffer changes; the listener, if there is one, runs
\* updateDiagnostics.  What the providers returned for the old text is
\* forgotten.
ContentChange ==
  /\ pc \in {"loading", "ready"}
  /\ \E text \in Edits(content) :
       \E out \in {IF editor.listener
                   THEN validateYaml(text, compiledSchema, linePosGiven)
                   ELSE outcome} :
          /\ content' = text
          /\ editor' = IF editor.listener THEN updateDiagnostics(editor, out)
                       ELSE editor
          /\ outcome' = out
  /\ hover' = HoverNull(FALSE)
  /\ completion' = Completion(FALSE, <<>>)
  /\ position' = 1
  /\ UNCHANGED call
  /\ UNCHANGED <<schema, schemaDefinitions, compiledSchema, linePosGiven, pc>>

\* Monaco asks the hover provider
HoverRequest ==
  /\ editor.hoverProvider
  /\ \E lineNumber \in 1..(MaxEditorLines + 1) :
       /\ position' = lineNumber
       /\ hover' = getHoverInfo(SplitLines(content), lineNumber,
                                schemaDefinitions, schema)
  /\ completion' = Completion(FALSE, <<>>)
  /\ UNCHANGED call
  /\ UNCHANGED <<content, schema, schemaDefinitions, compiledSchema,
                 linePosGiven, pc, outcome, editor>>

\* Monaco asks the completion provider (completions.js), whose
\* getCompletionItems is a copy of the one of schema.js: it differs in the
\* preselect flag of a suggestion and in the insert text of an object
CompletionRequest ==
  /\ editor.completionProvider
  /\ \E lineNumber \in 1..(MaxEditorLines + 1) :
       /\ position' = lineNumber
       /\ completion' = getCompletionItems(SplitLines(content), lineNumber,
                                           compiledSchema)
  /\ hover' = HoverNull(FALSE)
  /\ UNCHANGED call
  /\ UNCHANGED <<content, schema, schemaDefinitions, compiledSchema,
                 linePosGiven, pc, outcome, editor>>

NextEditor ==
  \/ SetupEditorFeatures
  \/ LoadSettles
  \/ ContentChange
  \/ HoverRequest
  \/ CompletionRequest

SpecEditor == InitEditor /\ [][NextEditor]_vars

(***************************************************************************)
(* share.js: the share URL.  A content is the sequence of its characters.  *)
(***************************************************************************)
\* the entries of compressionMap, in the order of Object.entries
compressionMap ==
  <<
    [key |-> <<"r", "e", "c", "i", "p", "e", ":", " ">>,
     value |-> <<"~", "r", "p", ":">>],
    [key |-> <<"c", "o", "n", "f", "i", "g", ":", " ">>,
     value |-> <<"~", "c", "p", ":">>],
    [key |-> <<"s", "e", "r", "v", "i", "c", "e", "s", ":", " ">>,
     value |-> <<"~", "s", "s", ":">>],
    [key |-> <<"w", "e", "b", "r", "o", "o", "t", ":", " ">>,
     value |-> <<"~", "w", "r", ":">>],
    [key |-> <<"d", "a", "t", "a", "b", "a", "s", "e", ":", " ">>,
     value |-> <<"~", "d", "b", ":">>],
    [key |-> <<"t", "y", "p", "e", ":", " ">>,
     value |-> <<"~", "t", ":">>],
    [key |-> <<"b", "u", "i", "l", "d", ":", " ">>,
     value |-> <<"~", "b", ":">>],
    [key |-> <<"c", "o", "m", "m", "a", "n", "d", ":", " ">>,
     value |-> <<"~", "c", "m", ":">>],
    [key |-> <<"p", "o", "r", "t", ":", " ">>,
     value |-> <<"~", "p", "t", ":">>],
    [key |-> <<"n", "a", "m", "e", ":", " ">>,
     value |-> <<"~", "n", ":">>],
    [key |-> <<"t", "o", "o", "l", "i", "n", "g", ":">>,
     value |-> <<"~", "t", "l", ":">>],
    [key |-> <<"s", "e", "r", "v", "i", "c", "e", ":">>,
     value |-> <<"~", "s", ":">>],
    [key |-> <<"d", "e", "s", "c", "r", "i", "p", "t", "i", "o", "n", ":">>,
     value |-> <<"~", "d", "s", "c", ":">>],
    [key |-> <<"e", "n", "v", "i", "r", "o", "n", "m", "e", "n", "t", ":">>,
     value |-> <<"~", "e", ":">>],
    [key |-> <<"i", "m", "a", "g", "e", ":">>,
     value |-> <<"~", "i", ":">>],
    [key |-> <<"v", "o", "l", "u", "m", "e", "s", ":">>,
     value |-> <<"~", "v", ":">>],
    [key |-> <<":", " ", "f", "a", "l", "s", "e">>,
     value |-> <<":", " ", "f">>],
    [key |-> <<":", " ", "t", "r", "u", "e">>,
     value |-> <<":", " ", "t">>]
  >>

RECURSIVE replaceAll(_, _, _)
\* s.replaceAll(pattern, replacement): the occurrences found from left to
\* right, none overlapping an earlier one
replaceAll(s, pattern, replacement) ==
  IF Len(s) < Len(pattern) THEN s
  ELSE IF SubSeq(s, 1, Len(pattern)) = pattern
  THEN replacement \o replaceAll(SubSeq(s, Len(pattern) + 1, Len(s)), pattern, replacement)
  ELSE <<Head(s)>> \o replaceAll(Tail(s), pattern, replacement)

RECURSIVE CompressFrom(_, _)
\* the loop of generateShareUrl over the entries: replaceAll(key, value)
CompressFrom(s, i) ==
  IF i > Len(compressionMap) THEN s
  ELSE CompressFrom(replaceAll(s, compressionMap[i].key, compressionMap[i].value), i + 1)

RECURSIVE RestoreFrom(_, _)
\* the loop of getSharedContent over the entries: replaceAll(value, key)
RestoreFrom(s, i) ==
  IF i > Len(compressionMap) THEN s
  ELSE RestoreFrom(replaceAll(s, compressionMap[i].value, compressionMap[i].key), i + 1)

\* the characters of the contents, each with its place in the list as code
Alphabet ==
  <<"a", "b", "c", "d", "e", "f", "g", "h", "i", "j", "k", "l", "m", "n", "o", "p", "q", "r", "s", "t", "u", "v", "w", "x", "y", "z", ":", " ", "~", "\n">>

\* compressToEncodedURIComponent of lz-string: a lossless code of the
\* characters, here the code of each character
compressToEncodedURIComponent(s) ==
  [i \in 1..Len(s) |-> CHOOSE k \in 1..Len(Alphabet) : Alphabet[k] = s[i]]

\* decompressFromEncodedURIComponent of lz-string
decompressFromEncodedURIComponent(encoded) ==
  [i \in 1..Len(encoded) |-> Alphabet[encoded[i]]]

RECURSIVE SplitNewlines(_, _)
\* the lines of a content, each ended by a newline or by the end
SplitNewlines(s, cur) ==
  IF s = <<>> THEN (IF cur = <<>> THEN <<>> ELSE <<cur>>)
  ELSE IF Head(s) = "\n" THEN <<cur>> \o SplitNewlines(Tail(s), <<>>)
  ELSE SplitNewlines(Tail(s), Append(cur, Head(s)))

\* the colon that ends the key of a line of a block mapping: the first
\* colon followed by a space or by the end of the line; 0 when there is none
KeyColon(line) ==
  LET cs == {j \in 1..Len(line) :
               line[j] = ":" /\ (j = Len(line) \/ line[j + 1] = " ")}
  IN IF cs = {} THEN 0 ELSE CHOOSE j \in cs : \A k \in cs : j <= k

\* the indentation of a line: its leading spaces
IndentOf(line) ==
  CHOOSE n \in 0..Len(line) :
    /\ \A i \in 1..n : line[i] = " "
    /\ (n = Len(line) \/ line[n + 1] # " ")

RECURSIVE LevelOf(_, _, _)
\* the depth of line i in the mappings of the document: one more than the
\* depth of the nearest line above it that is less indented (j runs upwards)
LevelOf(lines, i, j) ==
  IF j = 0 THEN 0
  ELSE IF IndentOf(lines[j]) < IndentOf(lines[i]) THEN 1 + LevelOf(lines, j, j - 1)
  ELSE LevelOf(lines, i, j - 1)

\* parseDocument(content) on block mappings of plain scalars: the pairs of
\* the document in order, each with its depth, its key and the source of
\* its value; errors when a line is no pair
parseDocument(s) ==
  LET lines == SplitNewlines(s, <<>>)
  IN [errors |-> \E i \in 1..Len(lines) : KeyColon(lines[i]) = 0,
      pairs |-> [i \in 1..Len(lines) |->
                  [level |-> LevelOf(lines, i, i - 1),
                   key |-> SubSeq(lines[i], IndentOf(lines[i]) + 1, KeyColon(lines[i]) - 1),
                   value |-> SubSeq(lines[i], KeyColon(lines[i]) + 2, Len(lines[i]))]]]

RECURSIVE StringifyPairs(_, _, _)
StringifyPairs(pairs, i, indent) ==
  IF i > Len(pairs) THEN <<>>
  ELSE Spaces(pairs[i].level * indent) \o pairs[i].key \o <<":">>
       \o (IF pairs[i].value = <<>> THEN <<>> ELSE <<" ">> \o pairs[i].value)
       \o <<"\n">> \o StringifyPairs(pairs, i + 1, indent)

\* doc.toString({indent}): every pair on its line, indented by indent
\* spaces for each step of depth; it throws when the document has errors
DocToString(doc, indent) ==
  IF doc.errors THEN Thrown ELSE Returned(StringifyPairs(doc.pairs, 1, indent))

\* formatYaml(content) of format-yaml.js on a content without comments,
\* carriage returns or blank lines
formatYaml(yaml) == DocToString(parseDocument(yaml), 2)

\* what getSharedContent returns for null
NullContent == <<>>

\* generateShareUrl(content): the search parameter s of the URL
generateShareUrl(yaml) ==
  LET formatted == formatYaml(yaml)
      yamlStr == DocToString(parseDocument(formatted.val), 1)
  IN IF ~formatted.ok \/ ~yamlStr.ok THEN Thrown
     ELSE Returned([s |-> compressToEncodedURIComponent(CompressFrom(yamlStr.val, 1))])

\* getSharedContent() on window.location.search = params
getSharedContent(params) ==
  IF params.s = <<>> THEN NullContent
  ELSE LET decompressed == decompressFromEncodedURIComponent(params.s)
           formatted == DocToString(parseDocument(RestoreFrom(decompressed, 1)), 2)
       IN IF decompressed = <<>> THEN NullContent
          ELSE IF ~formatted.ok THEN NullContent
          ELSE formatted.val

(***************************************************************************)
(* The internal functions of schema.js called on their own, on any         *)
(* arguments                                                               *)
(***************************************************************************)
\* the keys of the paths
PathKeys == {KeyA, KeyBB, KeyZ, KeyConstructor}

\* the schemas handed to the internal functions
CallSchemas ==
  Schemas \cup {SchemaPatterns, SchemaDangling, SchemaLeafRef, SchemaShared,
              SchemaLabels, SchemaCyclic}

\* the paths of up to MaxPath keys
Paths == UNION {[1..n -> PathKeys] : n \in 0..MaxPath}

\* the keys and the value sources of the shared contents
ShareKeys == {<<"t", "y", "p", "e">>, <<"a", "p", "p">>}
ShareValues == {<<>>, <<"t", "r", "u", "e">>, <<"f", "o", "o">>, <<"p", "h", "p">>}

ShareLine(indent, key, value) ==
  Spaces(indent) \o key \o <<":">> \o (IF value = <<>> THEN <<>> ELSE <<" ">> \o value)

\* the shared contents: a pair, then possibly a second pair beside it or,
\* when the first has no value, inside it
ShareContents ==
  {ShareLine(0, k, v) : k \in ShareKeys, v \in ShareValues}
  \cup UNION {{ShareLine(0, k1, v1) \o <<"\n">> \o ShareLine(0, k2, v2) :
                  k2 \in ShareKeys \ {k1}, v1 \in ShareValues, v2 \in ShareValues} :
                k1 \in ShareKeys}
  \cup {ShareLine(0, k1, <<>>) \o <<"\n">> \o ShareLine(IndentWidth, k2, v2) :
          k1 \in ShareKeys, k2 \in ShareKeys, v2 \in ShareValues}

InitCalls ==
  /\ content = <<BlankLine>>
  /\ schema = NoSchema
  /\ schemaDefinitions = NullDefinitions
  /\ compiledSchema = NoSchema
  /\ linePosGiven = TRUE
  /\ position = 1
  /\ pc = "start"
  /\ outcome = NoOutcome
  /\ hover = HoverNull(FALSE)
  /\ completion = Completion(FALSE, <<>>)
  /\ editor = NoEditor
  /\ call = NoCall

\* generatePossiblePaths(path)
GeneratePossiblePaths ==
  /\ pc = "start"
  /\ \E path \in Paths :
       call' = Call("generatePossiblePaths", path, generatePossiblePaths(path))
  /\ pc' = "called"
  /\ UNCHANGED <<content, schema, schemaDefinitions, compiledSchema,
                 linePosGiven, position, outcome, hover, completion, editor>>

\* getSchemaAtPath(schema, path)
GetSchemaAtPath ==
  /\ pc = "start"
  /\ \E S \in CallSchemas, path \in Paths :
       /\ schema' = S
       /\ call' = Call("getSchemaAtPath", path, getSchemaAtPath(S, path))
  /\ pc' = "called"
  /\ UNCHANGED <<content, schemaDefinitions, compiledSchema, linePosGiven,
                 position, outcome, hover, completion, editor>>

\* what a call of flattenSchema returns: the index, or undefined
FlattenReturn(flat) ==
  IF flat.returned THEN NullDefinitions ELSE Definitions(flat.result)

\* flattenSchema(schema), of schema.js or of src/lib, on a schema object as
\* written; the caller keeps what is returned in schemaDefinitions, as
\* loadSchema does
FlattenSchema ==
  /\ pc = "start"
  /\ \E S \in CallSchemas, lib \in BOOLEAN :
       \E flat \in {flattenSchemaOf(S, lib)} :
          /\ schema' = flat.S
          /\ schemaDefinitions' = FlattenReturn(flat)
          /\ call' = Call("flattenSchema",
                          [schema |-> S, lib |-> lib, processed |-> flat.processed],
                          FlattenReturn(flat))
  /\ pc' = "flattened"
  /\ UNCHANGED <<content, compiledSchema, linePosGiven, position, outcome,
                 hover, completion, editor>>

\* flattenSchema(schema) a second time on the same schema object
FlattenAgain ==
  /\ pc = "flattened"
  /\ \E flat \in {flattenSchemaOf(schema, call.args.lib)} :
       /\ schema' = flat.S
       /\ call' = Call("flattenSchema",
                       [schema |-> schema, lib |-> call.args.lib,
                        processed |-> flat.processed],
                       FlattenReturn(flat))
  /\ pc' = "flattened again"
  /\ UNCHANGED <<content, schemaDefinitions, compiledSchema, linePosGiven,
                 position, outcome, hover, completion, editor>>

\* generateShareUrl(content), then getSharedContent() on the URL it returned
Share ==
  /\ pc = "start"
  /\ \E c \in ShareContents :
       \E url \in {generateShareUrl(c)} :
          call' = Call("getSharedContent", c,
                       IF url.ok THEN getSharedContent(url.val) ELSE NullContent)
  /\ pc' = "called"
  /\ UNCHANGED <<content, schema, schemaDefinitions, compiledSchema,
                 linePosGiven, position, outcome, hover, completion, editor>>

\* the texts that end in a line being typed, which holds its indentation
\* and no key yet
QueryTexts ==
  {Append(text, [kind |-> "blank", indent |-> IndentWidth * l, key |-> <<>>, val |-> "none"]) :
     text \in Texts, l \in 0..MaxDepth}

\* findPathAtPosition(content, position), the position on a line of the
\* content, as the editor gives it
FindPathAtPosition ==
  /\ pc = "start"
  /\ \E text \in Texts \cup QueryTexts :
       \E n \in 1..Len(text) :
          /\ content' = text
          /\ position' = n
          /\ call' = Call("findPathAtPosition", n, findPathAtPosition(SplitLines(text), n))
  /\ pc' = "called"
  /\ UNCHANGED <<schema, schemaDefinitions, compiledSchema, linePosGiven,
                 outcome, hover, completion, editor>>

\* the largest number of items of a list of a text with lists
MaxItems == 2
\* the largest number of calls of loadSchema in a row
MaxLoads == 2

\* the texts with lists: one or two top-level keys, each with a block list
\* of up to MaxItems items below it; an item is a scalar on its dash line
\* (1 line) or a mapping of two pairs, the first on the dash line (2 lines)
ListEntries == [key : {KeyA, KeyBB}, items : UNION {[1..n -> {1, 2}] : n \in 1..MaxItems}]

ListDocs ==
  {<<e>> : e \in ListEntries}
  \cup {d \in [1..2 -> ListEntries] : d[1].key # d[2].key}

\* the lines of an item of a list
ItemLines(size) ==
  IF size = 1 THEN <<<<" ", " ", "-", " ", "s">>>>
  ELSE <<<<" ", " ", "-", " ", "z", ":", " ", "s">>,
         <<" ", " ", " ", " ">> \o KeyBB \o <<":", " ", "s">>>>

RECURSIVE ItemsLines(_, _)
ItemsLines(items, k) ==
  IF k > Len(items) THEN <<>> ELSE ItemLines(items[k]) \o ItemsLines(items, k + 1)

RECURSIVE ListLines(_, _)
\* content.split('\n') of a text with lists
ListLines(doc, e) ==
  IF e > Len(doc) THEN <<>>
  ELSE <<doc[e].key \o <<":">>>> \o ItemsLines(doc[e].items, 1) \o ListLines(doc, e + 1)

\* findLocationInYaml(content, path), the path naming item k (0-based) of
\* the list under a key of the text, as the instancePath of an error does
FindLocationInYaml ==
  /\ pc = "start"
  /\ \E doc \in ListDocs :
       \E e \in 1..Len(doc) :
          \E k \in 0..(Len(doc[e].items) - 1) :
             call' = Call("findLocationInYaml", [doc |-> doc, e |-> e, k |-> k],
                          findLocationInYaml(ListLines(doc, 1), <<doc[e].key, NumberChars(k)>>))
  /\ pc' = "called"
  /\ UNCHANGED <<content, schema, schemaDefinitions, compiledSchema,
                 linePosGiven, position, outcome, hover, completion, editor>>

\* getCompletionsForSchema(schema, range) on a node of a schema, the
\* cursor at the end of an indented empty line
GetCompletionsForSchema ==
  /\ pc = "start"
  /\ \E S \in CallSchemas :
       \E id \in 1..Len(S) :
          /\ schema' = S
          /\ call' = Call("getCompletionsForSchema", id,
                          getCompletionsForSchema(S, id, WordRange(<<Spaces(IndentWidth)>>, 1)))
  /\ pc' = "called"
  /\ UNCHANGED <<content, schemaDefinitions, compiledSchema, linePosGiven,
                 position, outcome, hover, completion, editor>>

\* loadSchema(), called up to MaxLoads times in a row; fetched is what the
\* fetch of this call delivers if it is made (NoSchema: the fetch fails)
LoadSchema ==
  /\ pc \in {"start", "loaded"}
  /\ pc = "loaded" => call.args.n < MaxLoads
  /\ \E fetched \in CallSchemas \cup {NoSchema} :
       \E l \in {loadSchema(fetched, schema, schemaDefinitions, compiledSchema)} :
          /\ schema' = l.schema
          /\ schemaDefinitions' = l.schemaDefinitions
          /\ compiledSchema' = l.compiledSchema
          /\ call' = Call("loadSchema",
                          [n |-> IF pc = "loaded" THEN call.args.n + 1 ELSE 1,
                           fetched |-> fetched,
                           before |-> [schema |-> schema,
                                       schemaDefinitions |-> schemaDefinitions,
                                       compiledSchema |-> compiledSchema]],
                          l.returned)
  /\ pc' = "loaded"
  /\ UNCHANGED <<content, linePosGiven, position, outcome, hover, completion, editor>>

NextCalls ==
  \/ GeneratePossiblePaths
  \/ GetSchemaAtPath
  \/ FlattenSchema
  \/ FlattenAgain
  \/ Share
  \/ FindPathAtPosition
  \/ FindLocationInYaml
  \/ GetCompletionsForSchema
  \/ LoadSchema

SpecCalls == InitCalls /\ [][NextCalls]_vars

(***************************************************************************)
(* The structure of a text, read off the text itself: the path of the key  *)
(* of a line is the path of the nearest less indented key line above it,   *)
(* followed by its own key.                                                *)
(***************************************************************************)
ParentLines(text, i) ==
  {j \in 1..(i - 1) : text[j].kind = "key" /\ text[j].indent < text[i].indent}

Max(S) == CHOOSE x \in S : \A y \in S : y <= x

RECURSIVE PathOfLine(_, _)
PathOfLine(text, i) ==
  IF ParentLines(text, i) = {} THEN <<text[i].key>>
  ELSE Append(PathOfLine(text, Max(ParentLines(text, i))), text[i].key)

LinesOfPath(text, path) ==
  {i \in 1..Len(text) : text[i].kind = "key" /\ PathOfLine(text, i) = path}

Undefined == [t |-> "undefined", m |-> <<>>]

RECURSIVE ValueAt(_, _)
ValueAt(v, path) ==
  IF path = <<>> THEN v
  ELSE IF v.t = "object" /\ HasKey(v.m, Head(path))
  THEN ValueAt(Get(v.m, Head(path)), Tail(path))
  ELSE Undefined

KeysOf(v) == [i \in 1..Len(v.m) |-> v.m[i].k]

DiagStart(d) == <<d.startLineNumber, d.startColumn>>

\* the marker that the error of index i gives rise to when it is not dropped
MarkerOf(lines, errors, i) == DedupStep(lines, <<>>, errors, i)[1].diag

(***************************************************************************)
(* Claims on validateYaml                                                  *)
(***************************************************************************)
Validated == pc = "validated"

\* C1: for every schema and every text that parses and whose parsed value
\* satisfies the schema, validateYaml returns the empty array, also when
\* the text contains keys with nothing after the colon.
C1_ValidTextHasNoDiagnostics ==
  (/\ Validated
   /\ YAMLparse(content).ok
   /\ Compiles(schema)
   /\ AjvErrors(schema, YAMLparse(content).val, Root, <<>>) = <<>>)
  => outcome.diags = <<>>

\* C2: when the only violation is a wrong type of a single property, exactly
\* one diagnostic is returned, on the line of that property's key, its
\* columns spanning exactly the characters of the key.
C2_TypeViolationMarksTheKey ==
  (/\ Validated
   /\ outcome.ran = 1
   /\ Len(outcome.errors) = 1
   /\ outcome.errors[1].keyword = "type"
   /\ outcome.errors[1].instancePath # <<>>)
  => /\ Len(outcome.diags) = 1
     /\ \E i \in LinesOfPath(content, InstanceSegments(outcome.errors[1].instancePath)) :
          /\ outcome.diags[1].startLineNumber = i
          /\ outcome.diags[1].endLineNumber = i
          /\ outcome.diags[1].startColumn = content[i].indent + 1
          /\ outcome.diags[1].endColumn = content[i].indent + 1 + Len(content[i].key)

\* C3: the diagnostic of a validator error is omitted only when an earlier
\* error already produced a diagnostic at the same line and column; two
\* unexpected properties of one object on different lines are both reported.
C3_OmittedOnlyWhenSameStart ==
  Validated =>
    \A i \in 1..Len(outcome.errors) :
      (\A k \in 1..Len(outcome.kept) : outcome.kept[k] # i)
      => \E k \in 1..Len(outcome.kept) :
           /\ outcome.kept[k] < i
           /\ DiagStart(outcome.diags[k])
                = DiagStart(MarkerOf(SplitLines(content), outcome.errors, i))

\* C4: the returned array never contains two diagnostics with the same
\* start line and start column.
C4_NoTwoDiagnosticsAtOneStart ==
  Validated =>
    \A i, j \in 1..Len(outcome.diags) :
      i # j => DiagStart(outcome.diags[i]) # DiagStart(outcome.diags[j])

ErrorsAt(errors, ip) == {i \in 1..Len(errors) : errors[i].instancePath = ip}

KeptAt(out, ip) ==
  {k \in 1..Len(out.kept) : out.errors[out.kept[k]].instancePath = ip}

Min1(S) == CHOOSE x \in S : \A y \in S : x <= y

SharedPaths(errors) ==
  {errors[i].instancePath : i \in 1..Len(errors)}

\* C5 as stated: several errors with one instancePath yield exactly one
\* diagnostic for that instancePath, built from the first of them.
C5_ExactlyOnePerInstancePath ==
  Validated =>
    \A ip \in SharedPaths(outcome.errors) :
      Cardinality(ErrorsAt(outcome.errors, ip)) >= 2
      => /\ Cardinality(KeptAt(outcome, ip)) = 1
         /\ \A k \in KeptAt(outcome, ip) :
              outcome.kept[k] = Min1(ErrorsAt(outcome.errors, ip))

\* an error of another instancePath, earlier in the validator's order, that
\* resolved to the same line and column as the error of index f
Preempted(lines, errors, f) ==
  \E j \in 1..(f - 1) : LocationKey(lines, errors[j]) = LocationKey(lines, errors[f])

\* C5 as amended: several errors with one instancePath yield at most one
\* diagnostic, built from the first of them; it is returned unless an
\* earlier error resolved to the same line and column, and then none is.
C5_FirstOfInstancePathOrNone ==
  Validated =>
    \A ip \in SharedPaths(outcome.errors) :
      Cardinality(ErrorsAt(outcome.errors, ip)) >= 2
      => LET f == Min1(ErrorsAt(outcome.errors, ip))
         IN /\ \A k \in KeptAt(outcome, ip) : outcome.kept[k] = f
            /\ Cardinality(KeptAt(outcome, ip)) <= 1
            /\ (KeptAt(outcome, ip) = {})
                 <=> Preempted(SplitLines(content), outcome.errors, f)

C5_Witness ==
  /\ Validated
  /\ \E ip \in SharedPaths(outcome.errors) :
       /\ Cardinality(ErrorsAt(outcome.errors, ip)) >= 2
       /\ Cardinality(KeptAt(outcome, ip)) = 1
       /\ ip # <<>>

StubLines(text) ==
  {i \in 1..Len(text) : text[i].kind = "key" /\ text[i].val = "none"}

\* the schema nodes declared for the root property k
RootProps(S, k) ==
  {S[Root].properties[i].id : i \in
     {j \in 1..Len(S[Root].properties) : S[Root].properties[j].k = k}}

\* C6: for every line that is a key with nothing after the colon, the value
\* validated holds an empty object at that key if it parsed as null and the
\* parsed value otherwise; a stub key whose schema is an object with a
\* required sub-field is reported for the missing sub-field.
C6_StubKeysBecomeEmptyObjects ==
  (Validated /\ outcome.ran = 1) =>
    \A i \in StubLines(content) :
      LET path == PathOfLine(content, i)
          before == ValueAt(YAMLparse(content).val, path)
          after == ValueAt(outcome.validated, path)
      IN /\ before = VNull => after = VObj(<<>>)
         /\ before # VNull => (after.t = before.t /\ KeysOf(after) = KeysOf(before))
         /\ \A n \in RootProps(schema, content[i].key) :
              (/\ Len(path) = 1
               /\ before = VNull
               /\ schema[n].type = "object"
               /\ schema[n].required # <<>>)
              => \E e \in 1..Len(outcome.errors) :
                   /\ outcome.errors[e].keyword = "required"
                   /\ outcome.errors[e].instancePath = <<"/">> \o content[i].key
                   /\ \/ \E k \in 1..Len(outcome.kept) : outcome.kept[k] = e
                      \/ Preempted(SplitLines(content), outcome.errors, e)

\* C8: when the parser rejects the text, exactly one diagnostic is returned,
\* at the line and column range the parser reported, and the validator is
\* not run.
C8_ParseFailureGivesOneDiagnostic ==
  (Validated /\ ~YAMLparse(content).ok) =>
    /\ Len(outcome.diags) = 1
    /\ outcome.ran = 0
    /\ linePosGiven =>
         LET linePos == LinePos(content, YAMLparse(content).errAt)
         IN /\ outcome.diags[1].startLineNumber = linePos[1].line
            /\ outcome.diags[1].startColumn = linePos[1].col
            /\ outcome.diags[1].endLineNumber = linePos[2].line
            /\ outcome.diags[1].endColumn = linePos[2].col

C8_Witness ==
  /\ Validated
  /\ ~YAMLparse(content).ok
  /\ linePosGiven
  /\ outcome.diags[1].startLineNumber = 2
  /\ outcome.diags[1].startColumn = 3

(***************************************************************************)
(* Claims on the three entry points and on the editor                      *)
(***************************************************************************)
IsDiagnostic(d) ==
  /\ d.startLineNumber >= 1
  /\ d.startColumn >= 1
  /\ d.severity = "Error"

\* C7: whatever the text, the position (also one past the last line) and
\* the schema, validateYaml returns an array of diagnostics,
\* getCompletionItems an object with a suggestions array and getHoverInfo a
\* hover object or null; no exception reaches the caller.
C7_EntryPointsAreTotal ==
  /\ pc = "validated" =>
       /\ ~outcome.threw
       /\ \A i \in 1..Len(outcome.diags) : IsDiagnostic(outcome.diags[i])
  /\ pc = "completed" =>
       /\ ~completion.threw
       /\ \A i \in 1..Len(completion.suggestions) :
            completion.suggestions[i].label # <<>>
  /\ pc = "hovered" =>
       /\ ~hover.threw
       /\ hover.isNull \/ hover.range.startLineNumber = position

C7_Witness ==
  /\ pc = "validated"
  /\ outcome.exc = "other"
  /\ YAMLparse(content).ok
  /\ Len(outcome.diags) = 1

\* C9: validateYaml is called only after loadSchema has resolved to a
\* schema, never while the load is pending and never after it resolved to
\* null; after null exactly one marker, a Warning, is set.
C9_ValidateOnlyAfterSchemaLoaded ==
  /\ editor.validated => editor.loadResult = "schema"
  /\ editor.listener => editor.loadResult = "schema"
  /\ editor.loadResult = "null" => editor.markers = <<WarningMarker>>
  /\ editor.loadResult = "pending" => editor.markers = <<>>

C9_Witness ==
  /\ editor.loadResult = "null"
  /\ editor.markers = <<WarningMarker>>
  /\ ~editor.validated
  /\ schemaDefinitions.isNull
  /\ position > 1

\* C10: after loadSchema has failed, for whatever reason, getHoverInfo
\* returns null for every text and position and no completion provider is
\* registered.
C10_InactiveAfterLoadFailure ==
  editor.loadResult = "null" => (hover.isNull /\ ~editor.completionProvider)

\* the candidates that the index holds as its own keys, in order
IndexedCandidates(definitions, possiblePaths) ==
  IF definitions.isNull THEN <<>>
  ELSE SelectSeq(possiblePaths, LAMBDA q : IndexHas(definitions.index, q))

\* C11: getHoverInfo returns the documentation of the first candidate, in
\* possiblePaths order, that is present in the flattened index; it returns
\* null when the line has no key or no candidate is indexed.
C11_HoverIsFirstIndexedCandidate ==
  pc = "hovered" =>
    LET lines == SplitLines(content)
        inText == position <= Len(lines)
        match == IF inText THEN KeyMatch(lines[position]) ELSE NoMatch
        path == IF inText THEN findPathAtPosition(lines, position).val ELSE <<>>
        indexed == IndexedCandidates(schemaDefinitions, generatePossiblePaths(path))
    IN IF ~match.ok \/ indexed = <<>>
       THEN hover.isNull
       ELSE /\ ~hover.isNull
            /\ hover.contents =
                 HoverContents(schema, IndexGet(schemaDefinitions.index, indexed[1]),
                               match.key)

\* the path with its segment i (counted from 0) replaced by "*"
Starred(path, i) == [k \in 1..Len(path) |-> IF k = i + 1 THEN <<"*">> ELSE path[k]]

Prefill(prop) ==
  IF prop.examples # <<>> THEN <<prop.examples[1]>>
  ELSE IF prop.enum # <<>> THEN <<prop.enum[1]>>
  ELSE IF "default" \in prop.has THEN <<prop.default>>
  ELSE <<>>

InsertionText(key, prop) ==
  IF prop.type = "object" THEN key \o <<":", "\n", " ", " ">> \o <<"$", "{", "1", "}">>
  ELSE IF Prefill(prop) = <<>> THEN key \o <<":", " ">> \o <<"$", "{", "1", "}", "\n">>
  ELSE key \o <<":", " ">> \o <<"$", "{", "1", ":">> \o Prefill(prop)[1] \o <<"}", "\n">>

Unspecified == 0 - 2

RECURSIVE DeclaredAtPath(_, _, _)
\* the node that the path leads to from the node cur when every segment is
\* resolved by the property declared under that name and otherwise by the
\* first pattern, in declaration order, that matches it
DeclaredAtPath(S, cur, path) ==
  IF path = <<>> THEN cur
  ELSE
    LET node == S[cur]
        props == {i \in 1..Len(node.properties) : node.properties[i].k = Head(path)}
        pats == {i \in 1..Len(node.patternProperties) :
                   PatternTest(node.patternProperties[i].k, Head(path))}
    IN IF props # {}
       THEN DeclaredAtPath(S, node.properties[CHOOSE i \in props : TRUE].id, Tail(path))
       ELSE IF \E i \in 1..Len(node.patternProperties) :
                 ~PatternIsRegExp(node.patternProperties[i].k)
       THEN Unspecified
       ELSE IF pats # {}
       THEN DeclaredAtPath(
              S, node.patternProperties[CHOOSE i \in pats : \A j \in pats : i <= j].id,
              Tail(path))
       ELSE Unspecified

\* C14: getSchemaAtPath resolves each path segment by properties[segment]
\* first and otherwise by the first patternProperties entry, in declaration
\* order, whose regex matches the segment.
C14_PropertiesThenFirstPattern ==
  (/\ call.fn = "getSchemaAtPath"
   /\ DeclaredAtPath(schema, Root, call.args) # Unspecified)
  => call.result = Returned(DeclaredAtPath(schema, Root, call.args))

\* C15: flattening the same schema object a second time, after the first
\* flattening has merged the $ref targets into its nodes in place, returns
\* an index equal, entry for entry, to the index of the first flattening.
C15_SecondFlatteningGivesSameIndex ==
  pc = "flattened again" => call.result = schemaDefinitions

\* whether the node id of the schema S carries a $ref that does not resolve
Dangling(S, id) == S[id].ref # <<>> /\ resolveRef(S, S[id].ref) = 0

\* C16: when a $ref cannot be resolved, flattenSchema abandons only the
\* subtree of the node that carries it: it still returns the index map, and
\* the entries of the sibling pattern properties, properties and $defs of
\* the enclosing node are still produced.  Stated for the children of the
\* root.
C16_UnresolvedRefKeepsSiblings ==
  LET S == call.args.schema
      root == S[Root]
      children == root.properties \o root.patternProperties \o root.defs
  IN (/\ pc = "flattened"
      /\ \E i \in 1..Len(children) : Dangling(S, children[i].id))
     => /\ ~call.result.isNull
        /\ \A i \in 1..Len(root.properties) :
             IndexHas(call.result.index, root.properties[i].k)
        /\ (\E i \in 1..Len(root.patternProperties) :
               ~Dangling(S, root.patternProperties[i].id))
           => IndexHas(call.result.index, <<"*">>)
        /\ \A i \in 1..Len(root.defs) :
             LET def == S[root.defs[i].id]
                 path == NameDefs \o <<"/">> \o root.defs[i].k
             IN def.ref = <<>> =>
                  IF "properties" \in def.has
                  THEN \A j \in 1..Len(def.properties) :
                         IndexHas(call.result.index,
                                  path \o <<"/">> \o def.properties[j].k)
                  ELSE "patternProperties" \in def.has
                       \/ IndexHas(call.result.index, path)

\* C17: opening a share URL reproduces the shared text: getSharedContent
\* applied to the URL returned by generateShareUrl(c) returns the formatted
\* form of c, every key and value unchanged
C17_ShareRoundTrip ==
  call.fn = "getSharedContent" => call.result = formatYaml(call.args).val

\* the root properties of the schema as written whose node is a $ref that
\* resolves and that declares no description and no type of its own
RefProperties(S) ==
  {i \in 1..Len(S[Root].properties) :
     \E node \in {S[S[Root].properties[i].id]} :
        /\ "ref" \in node.has
        /\ "description" \notin node.has
        /\ "type" \notin node.has
        /\ resolveRef(S, node.ref) # 0}

\* C18: for a property whose schema node is a $ref and declares no
\* description or type of its own, the index entry stored at prefix/key
\* carries the description, type, enum, examples and default of the node
\* referred to, be it a leaf or an object that declares properties
C18_RefPropertyEntryCarriesTarget ==
  (pc = "flattened" /\ ~call.result.isNull) =>
    \A i \in RefProperties(call.args.schema) :
      \E p \in {call.args.schema[Root].properties[i]} :
        \E target \in {call.args.schema[resolveRef(call.args.schema, call.args.schema[p.id].ref)]} :
          \E entry \in {IndexGet(call.result.index, p.k)} :
            /\ IndexHas(call.result.index, p.k)
            /\ entry.description = target.description
            /\ entry.type = target.type
            /\ entry.enum = target.enum
            /\ entry.examples = target.examples
            /\ entry.default = DefaultOf(target)

RECURSIVE TwoSpaceSteps(_, _)
\* whether the key of line i and the keys above it on its path stand at
\* two-space indentation steps: a key of depth d at 2 * d spaces
TwoSpaceSteps(text, i) ==
  /\ text[i].indent = IndentWidth * (Len(PathOfLine(text, i)) - 1)
  /\ ParentLines(text, i) # {} => TwoSpaceSteps(text, Max(ParentLines(text, i)))

\* the validator errors located by their instancePath alone, whose path is
\* not empty and names keys of the text at two-space indentation steps
LocatedErrors ==
  {e \in 1..Len(outcome.errors) :
     /\ outcome.errors[e].keyword # "additionalProperties"
     /\ outcome.errors[e].instancePath # <<>>
     /\ \E i \in LinesOfPath(content, InstanceSegments(outcome.errors[e].instancePath)) :
          TwoSpaceSteps(content, i)}

\* C19: for every validator error whose non-empty instancePath consists of
\* map keys that appear in the text as block keys at two-space indentation
\* steps, the diagnostic is placed on the line where the last key of the
\* path appears, whatever characters the key contains
C19_DiagnosticOnLineOfLastKey ==
  (Validated /\ outcome.ran = 1) =>
    \A e \in LocatedErrors :
      MarkerOf(SplitLines(content), outcome.errors, e).startLineNumber
        \in LinesOfPath(content, InstanceSegments(outcome.errors[e].instancePath))

\* a line with a bare word key followed by a colon
WordKeyLine(l) == l.kind = "key" /\ \A j \in 1..Len(l.key) : l.key[j] \in WordChars

RECURSIVE RunningPath(_, _)
\* the running path after the first n lines of the text: each line with a
\* bare word key truncates it to level = indent / 2 entries and sets
\* path[level] to the key, every other line leaves it as it is
RunningPath(text, n) ==
  IF n = 0 THEN <<>>
  ELSE IF WordKeyLine(text[n])
  THEN SetAt(Slice(RunningPath(text, n - 1), text[n].indent \div IndentWidth),
             text[n].indent \div IndentWidth, text[n].key)
  ELSE RunningPath(text, n - 1)

\* C20, as stated: findPathAtPosition(text, {lineNumber: n}) builds the path
\* from the lines strictly before line n only, so that a key on line n
\* itself is not part of what is returned
C20_PathFromLinesBefore ==
  call.fn = "findPathAtPosition" =>
    call.result = Returned(FilterBoolean(RunningPath(content, position - 1)))

\* C20, amended: findPathAtPosition(text, {lineNumber: n}) builds the path
\* from the lines 1 to n, line n included, and a bare word key on line n is
\* the last entry of the returned path
C20_PathThroughQueryLine ==
  call.fn = "findPathAtPosition" =>
    /\ call.result = Returned(FilterBoolean(RunningPath(content, position)))
    /\ WordKeyLine(content[position]) =>
         /\ call.result.val # <<>>
         /\ call.result.val[Len(call.result.val)] = content[position].key

\* a nested key on the query line, returned below the key of the line above
C20_Witness ==
  /\ call.fn = "findPathAtPosition"
  /\ position = 2
  /\ content[2].indent = IndentWidth
  /\ call.result = Returned(<<KeyA, KeyBB>>)

(***************************************************************************)
(* Claims on findLocationInYaml and lists                                  *)
(***************************************************************************)
RECURSIVE SumTo(_, _)
\* the number of lines of the first n items
SumTo(items, n) == IF n = 0 THEN 0 ELSE items[n] + SumTo(items, n - 1)

RECURSIVE EntryStart(_, _)
\* the line number of the key of entry e of a text with lists
EntryStart(doc, e) ==
  IF e = 1 THEN 1
  ELSE EntryStart(doc, e - 1) + 1 + SumTo(doc[e - 1].items, Len(doc[e - 1].items))

\* the line number of the dash of item k (0-based) of the list of entry e
DashLine(doc, e, k) == EntryStart(doc, e) + 1 + SumTo(doc[e].items, k)

\* C21: the arrayIndex counter restarts only when the level of a dash line
\* differs from that of the dash line before it, so that item k of a list
\* is matched by path index k even when earlier items span several lines;
\* stated for the first list of the text
C21_ItemMatchedByItsIndex ==
  (call.fn = "findLocationInYaml" /\ call.args.e = 1) =>
    call.result.line = DashLine(call.args.doc, 1, call.args.k)

\* C22: for a path that ends in an array index the location returned is a
\* dash line of the list under the key named by the path, never an item of
\* another list at the same indentation
C22_ItemOfTheNamedList ==
  call.fn = "findLocationInYaml" =>
    \E k \in 0..(Len(call.args.doc[call.args.e].items) - 1) :
      call.result.line = DashLine(call.args.doc, call.args.e, k)

(***************************************************************************)
(* Claims on flattenSchema                                                 *)
(***************************************************************************)
RECURSIVE NestedPaths(_, _)
\* the paths of the properties nested in the node id of the schema, at
\* every depth
NestedPaths(S, id) ==
  UNION {{S[id].properties[i].k}
         \cup {JoinPath(S[id].properties[i].k, q) : q \in NestedPaths(S, S[id].properties[i].id)} :
         i \in 1..Len(S[id].properties)}

\* the definition that the root property i of the schema refers to, 0 when
\* it has no $ref or the $ref does not resolve
TargetOf(S, i) ==
  IF "ref" \in S[S[Root].properties[i].id].has
  THEN resolveRef(S, S[S[Root].properties[i].id].ref)
  ELSE 0

\* the root properties that share the definition they refer to with
\* another root property
SharingProperties(S) ==
  {i \in 1..Len(S[Root].properties) :
     /\ TargetOf(S, i) # 0
     /\ \E j \in 1..Len(S[Root].properties) : j # i /\ TargetOf(S, j) = TargetOf(S, i)}

\* C23: when two different properties refer to the same definition through
\* $ref, the index has an entry for every property nested in that
\* definition, at every depth, under each of the two referring paths
C23_SharedDefinitionUnderEachPath ==
  (pc = "flattened" /\ ~call.result.isNull) =>
    \A i \in SharingProperties(call.args.schema) :
      \A q \in NestedPaths(call.args.schema, TargetOf(call.args.schema, i)) :
        IndexHas(call.result.index, JoinPath(call.args.schema[Root].properties[i].k, q))

\* whether the path is that of a patternProperties declaration: "*", or a
\* prefix followed by "/*"
WildcardPath(path) ==
  \/ path = <<"*">>
  \/ Len(path) >= 2 /\ path[Len(path)] = "*" /\ path[Len(path) - 1] = "/"

\* C24: after flattening, the entry stored at prefix + "/*" (or "*") for a
\* patternProperties declaration holds the pattern string and no enum,
\* examples or default, whatever the shape of the value node of the pattern
C24_WildcardEntryIsPatternEntry ==
  (pc = "flattened" /\ ~call.result.isNull) =>
    \A i \in 1..Len(call.result.index) :
      WildcardPath(call.result.index[i].path) =>
        /\ call.result.index[i].entry.pattern # <<>>
        /\ call.result.index[i].entry.enum = <<>>
        /\ call.result.index[i].entry.examples = <<>>
        /\ call.result.index[i].entry.default = <<>>

(***************************************************************************)
(* Claims on the messages of validateYaml                                  *)
(***************************************************************************)
\* the message '<last path segment> <validator message> at <place>'
MessageAt(error, place) ==
  Message("name message at path", LastSegment(error.instancePath),
          error.keyword, error.arg, error.prop, place)

\* C25: for every validator error other than additionalProperties the
\* message of the diagnostic has the form '<last path segment> <validator
\* message> at <instancePath>', and for an error at the root of the
\* document (empty instancePath) it names the place as "root"
C25_MessageNamesThePlace ==
  (Validated /\ outcome.ran = 1) =>
    \A e \in 1..Len(outcome.errors) :
      outcome.errors[e].keyword # "additionalProperties" =>
        \E m \in {MarkerOf(SplitLines(content), outcome.errors, e).message} :
          IF outcome.errors[e].instancePath # <<>>
          THEN m = MessageAt(outcome.errors[e], outcome.errors[e].instancePath)
          ELSE m.form = "name message at path" /\ m.at = <<"r", "o", "o", "t">>

(***************************************************************************)
(* Claims on getSchemaAtPath and completion                                *)
(***************************************************************************)
RECURSIVE MatchedAtPath(_, _, _, _)
\* the node that the path leads to when every segment is matched against a
\* node: by its properties, else by its first matching pattern, else, when
\* the node carries a $ref, against the node referred to (at most hops
\* references in a row); 0 when a segment matches nothing, Unspecified
\* when a pattern is no regular expression
MatchedAtPath(S, cur, path, hops) ==
  IF path = <<>> THEN cur
  ELSE
    LET node == S[cur]
        pats == {i \in 1..Len(node.patternProperties) :
                   PatternTest(node.patternProperties[i].k, Head(path))}
    IN IF MapHasKey(node.properties, Head(path))
       THEN MatchedAtPath(S, MapGet(node.properties, Head(path)), Tail(path), Len(S))
       ELSE IF \E i \in 1..Len(node.patternProperties) :
                 ~PatternIsRegExp(node.patternProperties[i].k)
       THEN Unspecified
       ELSE IF pats # {}
       THEN MatchedAtPath(
              S, node.patternProperties[CHOOSE i \in pats : \A j \in pats : i <= j].id,
              Tail(path), Len(S))
       ELSE IF node.ref # <<>> /\ resolveRef(S, node.ref) # 0 /\ hops > 0
       THEN MatchedAtPath(S, resolveRef(S, node.ref), path, hops - 1)
       ELSE 0

\* C26: if a path segment matches neither an entry of properties nor a
\* patternProperties regex at the node reached so far, also when that node
\* carries a $ref, getSchemaAtPath returns null: no segment is consumed
\* without having been matched against a node
C26_UnmatchedSegmentGivesNull ==
  (/\ call.fn = "getSchemaAtPath"
   /\ \A i \in 1..Len(call.args) : call.args[i] \notin ObjectPrototypeKeys
   /\ MatchedAtPath(schema, Root, call.args, Len(schema)) = 0)
  => call.result = Returned(0)

\* C27: for a query line that carries no key, the path used for completion
\* (the line is indented, getCompletionItems looks the path up) is no
\* deeper than the indentation level indent / 2 of that line: keys of an
\* earlier, more deeply indented block that has ended are not in it
C27_PathNoDeeperThanQueryLine ==
  (/\ call.fn = "findPathAtPosition"
   /\ content[position].kind = "blank"
   /\ content[position].indent > 0)
  => Len(call.result.val) <= content[position].indent \div IndentWidth

\* the suggestions collected for the node id and its oneOf alternatives,
\* before duplicates are removed
Collected(S, id) ==
  FlatSeq([i \in 1..(1 + Len(S[id].oneOf)) |->
             SuggestionsOf(S, (<<id>> \o S[id].oneOf)[i], WordRange(<<Spaces(IndentWidth)>>, 1))])

\* the positions of the suggestions that no earlier suggestion equals in
\* both label and kind
FirstOfPair(suggestions) ==
  SelectSeq([i \in 1..Len(suggestions) |-> i],
            LAMBDA i : \A j \in 1..(i - 1) :
                         \/ suggestions[j].label # suggestions[i].label
                         \/ suggestions[j].kind # suggestions[i].kind)

\* C28: deduplication removes a suggestion only if an earlier suggestion has
\* both the same label and the same kind, and keeps the earliest suggestion
\* of each (label, kind) pair
C28_DedupeByLabelAndKind ==
  call.fn = "getCompletionsForSchema" =>
    \E raw \in {Collected(schema, call.args)} :
      call.result = [i \in 1..Len(FirstOfPair(raw)) |-> raw[FirstOfPair(raw)[i]]]

\* whether a $ref of the schema leads back to the node that carries it: the
\* node is reached from the node it refers to, by $ref, properties,
\* patternProperties, oneOf or $defs
Children(S, id) ==
  {S[id].properties[i].id : i \in 1..Len(S[id].properties)}
  \cup {S[id].patternProperties[i].id : i \in 1..Len(S[id].patternProperties)}
  \cup {S[id].defs[i].id : i \in 1..Len(S[id].defs)}
  \cup {S[id].oneOf[i] : i \in 1..Len(S[id].oneOf)}
  \cup (IF S[id].ref # <<>> /\ resolveRef(S, S[id].ref) # 0
        THEN {resolveRef(S, S[id].ref)} ELSE {})

RECURSIVE ReachableIn(_, _, _)
\* the nodes reached from the nodes of from in at most n steps
ReachableIn(S, from, n) ==
  IF n = 0 THEN from
  ELSE ReachableIn(S, from \cup UNION {Children(S, id) : id \in from}, n - 1)

CyclicRefs(S) ==
  \E id \in 1..Len(S) :
    /\ S[id].ref # <<>>
    /\ resolveRef(S, S[id].ref) # 0
    /\ id \in ReachableIn(S, {resolveRef(S, S[id].ref)}, Len(S))

\* C29: flattenSchema terminates on every finite schema, also when its $ref
\* graph is cyclic, and processes each schema node at most once: every call
\* returns, and no node passed the visited check twice
C29_EachNodeProcessedOnce ==
  call.fn = "flattenSchema" =>
    /\ pc \in {"flattened", "flattened again"}
    /\ \A i \in 1..Len(call.args.processed) : \A j \in 1..Len(call.args.processed) :
         call.args.processed[i] = call.args.processed[j] => i = j
    /\ Len(call.args.processed) <= Len(call.args.schema)

\* a schema with a cyclic $ref graph has been flattened, every node of it
\* processed
C29_Witness ==
  /\ pc = "flattened"
  /\ CyclicRefs(call.args.schema)
  /\ Len(call.args.processed) = Len(call.args.schema)
  /\ IndexHas(call.result.index, <<"a", "/", "z", "/", "a">>)

(***************************************************************************)
(* Claims on loadSchema                                                    *)
(***************************************************************************)
\* C30: once a call of loadSchema has succeeded, every later call returns
\* the identical schema object without fetching or flattening again: the
\* schema and the flattened index are left as they were
C30_LoadedSchemaIsKept ==
  (call.fn = "loadSchema" /\ call.args.before.compiledSchema # NoSchema) =>
    /\ call.result = call.args.before.compiledSchema
    /\ compiledSchema = call.args.before.compiledSchema
    /\ schemaDefinitions = call.args.before.schemaDefinitions
    /\ schema = call.args.before.schema

\* a second call after a successful one, whose fetch would have delivered
\* another schema
C30_Witness ==
  /\ call.fn = "loadSchema"
  /\ call.args.n = 2
  /\ call.args.before.compiledSchema # NoSchema
  /\ call.args.fetched \notin {NoSchema, call.args.before.compiledSchema}
  /\ call.result = call.args.before.compiledSchema
  /\ ~schemaDefinitions.isNull

====
